---- MODULE Spec2Model ----
(***************************************************************************)
(* Model of the finance-clerk chat handler of assistant_factory            *)
(* (src/app.py): field extractors, intent classification, the pending      *)
(* store, the ledger and the report query engine.                          *)
(*                                                                         *)
(* A message is a sequence of words.  Words are written in Latin           *)
(* transliteration of the normalized (case-folded, accent-stripped) Greek  *)
(* word: "plirosa" is "Πλήρωσα", "e20" is "20€", "d050126" is              *)
(* "05/01/2026".  Every detector of the source is a substring or regex     *)
(* scan of the text; here it is the same scan over the words, each word    *)
(* carrying the keywords it contains.                                      *)
(*                                                                         *)
(* The definitions of src/app.py lines 1095-1463 (admin_reset_finance,     *)
(* _ask_next_missing, the second _norm, the report parser and              *)
(* handle_report_in_chat) are read as module-level code, as public_chat    *)
(* calls them; in the file they stand between the quotes of the            *)
(* PUBLIC_CHAT_HTML literal (lines 670-1468).                              *)
(*                                                                         *)
(* Amounts are in cents, dates are the integer YYYYMMDD, an optional       *)
(* number is <<>> (None) or <<n>>, an optional string is "None" or the     *)
(* string, a label is <<>> (None) or the message.                          *)
(*                                                                         *)
(* Spec runs whole chat turns one after the other with the database        *)
(* configured and reachable.  SpecStore is the same with DATABASE_URL      *)
(* unset or the server unreachable.  SpecConc runs two requests at the     *)
(* same time, split at the database calls of public_chat.  SpecAsk and     *)
(* SpecReport apply missing_fields / _ask_next_missing and                 *)
(* _parse_report_request to every input of a bounded set.  SpecLedger      *)
(* reports on, and exports, every ledger of a bounded set; SpecInsert      *)
(* inserts into it and lists it.  SpecEdit runs chat turns next to         *)
(* undo_last, delete and the admin reset; SpecCallers runs them for        *)
(* callers with and without the key.  SpecNorm applies the two _norm to    *)
(* texts of characters, SpecMerchant runs merchant_map_set and the guess.  *)
(* SpecInsertRaises lets finance_insert raise in a chat turn.  SpecUndo    *)
(* runs undo_last and delete with their answers.  SpecRate runs            *)
(* rate_limited on two request threads.  SpecRevisions runs the calls of   *)
(* the assistant store of src/db_store.py (create, update, rollback,       *)
(* seed, publish, unpublish, rotate) from an empty database.               *)
(***************************************************************************)
EXTENDS Integers, Sequences, FiniteSets, TLC

VARIABLES
    pending,    \* finance_pending: key -> <<>> or <<the stored entry>>
    ledger,     \* finance_entries, in insertion order
    merchant,   \* finance_merchant_map rows
    nextId,     \* the next fresh entry id
    last,       \* per key, the latest chat turn: message, reply, pending before it
    who,        \* the key of the latest chat turn
    turns,      \* number of chat turns handled
    fn_in,      \* input of a pure function under check; the pending store
                \* two concurrent requests started from
    fn_out,     \* <<>> or <<its result>>
    db,         \* DATABASE_URL and the server behind it: "ok", "unset", "down"
    inflight    \* per worker, the request it is handling and how far it got

vars == <<pending, ledger, merchant, nextId, last, who, turns, fn_in, fn_out,
          db, inflight>>

(* ------------------------------ bounds --------------------------------- *)
MaxTurns == 3
MaxText == 3
MaxSets == 3

(* ------------------------------ constants ------------------------------ *)
Today == 20261102

None == "None"

Keys == {"c1", "c2"}

\* _finance_conn (lines 75-85): "unset" returns None, "down" raises from
\* psycopg2.connect, "ok" returns a connection
DbStates == {"ok", "unset", "down"}

(* ------------------------------ vocabulary ----------------------------- *)
ExpenseTokens == {"plirosa", "exodo"}
IncomeTokens == {"eispraxa", "esodo"}

ThessalonikiTokens == {"thessaloniki"}
VourvourouTokens == {"vourvourou"}

CatRules == << [cat |-> "utilities", keys |-> {"nero"}],
               [cat |-> "home_maintenance", keys |-> {"kipo"}],
               [cat |-> "rental_income", keys |-> {"airbnb"}] >>

AmountOfToken(tok) ==
    CASE tok = "e20" -> <<2000>>
      [] tok = "e35" -> <<3500>>
      [] tok = "e60" -> <<6000>>
      [] OTHER -> <<>>

\* the words _DATE_RE matches; "d310226" is "31/02/2026"
DateWords == {"d050126", "d060126", "d080126", "d310226"}

IsLeap(y) == (y % 4 = 0 /\ y % 100 # 0) \/ y % 400 = 0

MonthLast(y, m) ==
    IF m = 2 THEN (IF IsLeap(y) THEN 29 ELSE 28)
    ELSE IF m \in {4, 6, 9, 11} THEN 30
    ELSE 31

\* n, read as YYYYMMDD, is a day of the calendar
IsCalendarDate(n) ==
    /\ n > 0
    /\ (n \div 100) % 100 \in 1..12
    /\ n % 100 \in 1..MonthLast(n \div 10000, (n \div 100) % 100)

\* date(y, mo, d).isoformat() of a date word: <<the date>>, or <<>> where
\* date() raises ValueError (2026 has no 31 February)
DateOfToken(tok) ==
    CASE tok = "d050126" -> <<20260105>>
      [] tok = "d060126" -> <<20260106>>
      [] tok = "d080126" -> <<20260108>>
      [] OTHER -> <<>>

\* the value of an entry_date that could not be computed: date() raised
ValueError == -1

GreetingMsgs == {<<"geia">>, <<"geia", "sou">>, <<"hello">>}
CancelMsgs == {<<"akuro">>, <<"cancel">>, <<"reset">>}
LabelNoise == {"thessaloniki", "vourvourou", "plirosa", "eispraxa", "exodo", "esodo"}
ReportPrefixTokens == {"report", "anafora"}

(* ------------------------------ helpers -------------------------------- *)
Range(s) == {s[i] : i \in 1..Len(s)}

AnyIn(msg, toks) == \E i \in 1..Len(msg) : msg[i] \in toks

(* ------------------------------ extractors ----------------------------- *)
_detect_type(msg) ==
    IF AnyIn(msg, IncomeTokens) THEN "income"
    ELSE IF AnyIn(msg, ExpenseTokens) THEN "expense"
    ELSE None

_detect_property(msg) ==
    IF AnyIn(msg, ThessalonikiTokens) THEN "thessaloniki"
    ELSE IF AnyIn(msg, VourvourouTokens) THEN "vourvourou"
    ELSE None

\* the words left after _DATE_RE.sub(" ", t)
WithoutDates(msg) == SelectSeq(msg, LAMBDA tok : tok \notin DateWords)

AmountCandidates(msg) ==
    SelectSeq(WithoutDates(msg), LAMBDA tok : AmountOfToken(tok) # <<>>)

_detect_amount(msg) ==
    LET candidates == AmountCandidates(msg)
    IN  IF candidates = <<>> THEN <<>>
        ELSE AmountOfToken(candidates[Len(candidates)])

DateTokens(msg) == SelectSeq(msg, LAMBDA tok : tok \in DateWords)

date_in_msg(msg) == DateTokens(msg) # <<>>

_detect_date(msg) ==
    IF ~date_in_msg(msg) THEN Today
    ELSE IF DateOfToken(DateTokens(msg)[1]) = <<>> THEN ValueError
    ELSE DateOfToken(DateTokens(msg)[1])[1]

RECURSIVE FirstRule(_, _)
FirstRule(msg, i) ==
    IF i > Len(CatRules) THEN "uncategorized"
    ELSE IF AnyIn(msg, CatRules[i].keys) THEN CatRules[i].cat
    ELSE FirstRule(msg, i + 1)

\* mutant: the category is the first word of the message
_detect_category_first_word(msg) ==
    IF msg = <<>> THEN "uncategorized" ELSE msg[1]

_detect_category(msg) == FirstRule(msg, 1)

_label_candidate(msg) ==
    IF msg = <<>> THEN <<>>
    ELSE IF Len(msg) = 1 /\ msg[1] \in LabelNoise THEN <<>>
    ELSE msg

parse_finance_fields(msg) ==
    [ entry_type    |-> _detect_type(msg),
      property_slug |-> _detect_property(msg),
      amount        |-> _detect_amount(msg),
      entry_date    |-> _detect_date(msg),
      category      |-> _detect_category(msg),
      label         |-> _label_candidate(msg),
      raw_text      |-> IF msg = <<>> THEN <<>> ELSE <<msg>> ]

\* mutant: the property slot is not checked
missing_fields_no_property(state) ==
    (IF state.entry_type = None THEN <<"type">> ELSE <<>>)
    \o (IF state.amount = <<>> THEN <<"amount">> ELSE <<>>)

missing_fields(state) ==
    (IF state.entry_type = None THEN <<"type">> ELSE <<>>)
    \o (IF state.property_slug = None THEN <<"property">> ELSE <<>>)
    \o (IF state.amount = <<>> THEN <<"amount">> ELSE <<>>)

\* mutant: an entry start needs the property
looks_like_new_entry_needs_property(fields) ==
    fields.amount # <<>> /\ fields.property_slug # None

looks_like_new_entry(fields) ==
    LET has_amount == fields.amount # <<>>
        has_prop == fields.property_slug # None
        has_type == fields.entry_type # None
    IN  has_amount /\ (has_prop \/ has_type)

_ask_next_missing(missing) ==
    IF missing = <<>> THEN "none"
    ELSE missing[1]

_is_greeting(msg) == msg \in GreetingMsgs

_norm_is_cancel(msg) == msg \in CancelMsgs

(* ------------------------------ merchant memory ------------------------ *)
\* the words of a raw_text, a sequence of messages joined by " | "
RECURSIVE WordsOf(_)
WordsOf(raw) ==
    IF raw = <<>> THEN {} ELSE Range(raw[1]) \cup WordsOf(Tail(raw))

RECURSIVE FirstRow(_, _, _)
FirstRow(rows, words, i) ==
    IF i > Len(rows) THEN None
    ELSE IF rows[i].token \in words THEN rows[i].category
    ELSE FirstRow(rows, words, i + 1)

merchant_map_guess_category(rows, raw) ==
    IF db = "unset" THEN None ELSE FirstRow(rows, WordsOf(raw), 1)

(* ------------------------------ ledger storage ------------------------- *)
\* mutant: the lower end of the date range is left out
Matches_after_from(e, property_slug, entry_type, date_from, date_to) ==
    /\ (property_slug # None => e.property_slug = property_slug)
    /\ (entry_type # None => e.entry_type = entry_type)
    /\ (date_from # <<>> => e.entry_date > date_from[1])
    /\ (date_to # <<>> => e.entry_date <= date_to[1])

Matches(e, property_slug, entry_type, date_from, date_to) ==
    /\ (property_slug # None => e.property_slug = property_slug)
    /\ (entry_type # None => e.entry_type = entry_type)
    /\ (date_from # <<>> => e.entry_date >= date_from[1])
    /\ (date_to # <<>> => e.entry_date <= date_to[1])

\* ORDER BY entry_date DESC, created_at DESC; created_at grows with id
Before(a, b) ==
    \/ a.entry_date > b.entry_date
    \/ (a.entry_date = b.entry_date /\ a.id > b.id)

RECURSIVE SortRows(_)
SortRows(S) ==
    IF S = {} THEN <<>>
    ELSE LET first == CHOOSE a \in S : \A b \in S \ {a} : Before(a, b)
         IN  <<first>> \o SortRows(S \ {first})

finance_list(led, property_slug, entry_type, date_from, date_to) ==
    SortRows({e \in Range(led) :
                 Matches(e, property_slug, entry_type, date_from, date_to)})

\* mutant: the row is written twice
finance_insert_twice(led, entry) == Append(Append(led, entry), entry)

\* mutant: the row is written over the newest row of the table
finance_insert_over_newest(led, entry) ==
    IF led = <<>> THEN <<entry>> ELSE [led EXCEPT ![Len(led)] = entry]

finance_insert(led, entry) == Append(led, entry)

(* ------------------------------ pending storage ------------------------ *)
\* each of the three returns at once when _finance_conn() is None
finance_pending_get(store, k) == IF db = "unset" THEN <<>> ELSE store[k]

\* mutant: the upsert writes the row of every key
finance_pending_upsert_every_key(store, k, data) ==
    [j \in DOMAIN store |-> <<data>>]

finance_pending_upsert(store, k, data) ==
    IF db = "unset" THEN store ELSE [store EXCEPT ![k] = <<data>>]

\* mutant: the row is not deleted
finance_pending_clear_keeps_row(store, k) == store

finance_pending_clear(store, k) ==
    IF db = "unset" THEN store ELSE [store EXCEPT ![k] = <<>>]

(* ------------------------------ report parser -------------------------- *)
ReportExpenseTokens == {"exoda", "exodo"}
ReportIncomeTokens == {"esoda", "esodo"}
MonthTokens == {"mina"}

_detect_entry_type(msg) ==
    IF AnyIn(msg, ReportExpenseTokens) THEN "expense"
    ELSE IF AnyIn(msg, ReportIncomeTokens) THEN "income"
    ELSE None

_detect_property_slug(msg) ==
    IF AnyIn(msg, ThessalonikiTokens) THEN "thessaloniki"
    ELSE IF AnyIn(msg, VourvourouTokens) THEN "vourvourou"
    ELSE None

\* the words of the form YYYY-MM-DD; "i20260231" is "2026-02-31"
IsoWords == {"i20260107", "i20260231"}

IsoDigits(tok) ==
    CASE tok = "i20260107" -> 20260107
      [] tok = "i20260231" -> 20260231
      [] OTHER -> 0

\* lines 1287-1309: a YYYY-MM-DD word is returned as it stands, a D/M/Y
\* word goes through date() and is None when date() raises
_parse_date_token(tok) ==
    IF tok \in IsoWords THEN <<IsoDigits(tok)>> ELSE DateOfToken(tok)

\* ym is the integer YYYYMM; calendar.monthrange raises for a month
\* outside 1..12
_month_range(ym) ==
    IF ym % 100 \notin 1..12 THEN <<ValueError, ValueError>>
    ELSE <<ym * 100 + 1, ym * 100 + MonthLast(ym \div 100, ym % 100)>>

\* what \b(\d{4}-\d{2})\b finds in a word: "ym202613" is "2026-13", and
\* a YYYY-MM-DD word holds its YYYY-MM
YearMonthOfToken(tok) ==
    CASE tok = "ym202601" -> <<202601>>
      [] tok = "ym202613" -> <<202613>>
      [] tok \in IsoWords -> <<IsoDigits(tok) \div 100>>
      [] OTHER -> <<>>

YearMonthTokens(msg) == SelectSeq(msg, LAMBDA tok : YearMonthOfToken(tok) # <<>>)

\* the two words after the first  kw X  (sep = "")  or  kw X sep Y
PairAfter(msg, kw, sep) ==
    LET hits == {i \in 1..Len(msg) :
                    /\ msg[i] = kw
                    /\ IF sep = "" THEN i + 2 <= Len(msg)
                       ELSE i + 3 <= Len(msg) /\ msg[i + 2] = sep}
    IN  IF hits = {} THEN <<>>
        ELSE LET i == CHOOSE h \in hits : \A g \in hits : h <= g
             IN  IF sep = "" THEN <<msg[i + 1], msg[i + 2]>>
                 ELSE <<msg[i + 1], msg[i + 3]>>

\* both tokens of a pair parsed, or <<>> when there is no pair or one fails
ParsedPair(pair) ==
    IF pair = <<>> THEN <<>>
    ELSE LET df == _parse_date_token(pair[1])
             dt == _parse_date_token(pair[2])
         IN  IF df # <<>> /\ dt # <<>> THEN <<df[1], dt[1]>> ELSE <<>>

\* lines 1373-1377: nothing parsed, the current month
DefaultDates(msg) == _month_range(Today \div 100)

\* the words (\d{4}-\d{2}-\d{2}|\d{1,2}/\d{1,2}/\d{2,4}) finds
ReportDateTokens(msg) ==
    SelectSeq(msg, LAMBDA tok : tok \in DateWords \cup IsoWords)

\* lines 1364-1371: the first two date tokens anywhere
TwoTokenDates(msg) ==
    LET toks == ReportDateTokens(msg)
        two == IF Len(toks) >= 2 THEN ParsedPair(<<toks[1], toks[2]>>) ELSE <<>>
    IN  IF two # <<>> THEN two ELSE DefaultDates(msg)

\* lines 1355-1362: "απο X εως Y"
GreekDates(msg) ==
    LET greek == ParsedPair(PairAfter(msg, "apo", "eos"))
    IN  IF greek # <<>> THEN greek ELSE TwoTokenDates(msg)

\* lines 1346-1353: "range X Y"
RangeDates(msg) ==
    LET rng == ParsedPair(PairAfter(msg, "range", ""))
    IN  IF rng # <<>> THEN rng ELSE GreekDates(msg)

\* lines 1335-1344: a month word, with an optional YYYY-MM
MonthDates(msg) ==
    IF \E i \in 2..Len(msg) : msg[i] \in MonthTokens
    THEN (IF YearMonthTokens(msg) # <<>>
          THEN _month_range(YearMonthOfToken(YearMonthTokens(msg)[1])[1])
          ELSE _month_range(Today \div 100))
    ELSE RangeDates(msg)

_parse_report_request(msg) ==
    IF msg = <<>> THEN <<>>
    ELSE IF msg[1] \notin ReportPrefixTokens THEN <<>>
    ELSE << [ entry_type    |-> _detect_entry_type(msg),
              property_slug |-> _detect_property_slug(msg),
              date_from     |-> MonthDates(msg)[1],
              date_to       |-> MonthDates(msg)[2] ] >>

RECURSIVE SumAmounts(_)
SumAmounts(rows) ==
    IF rows = <<>> THEN 0 ELSE rows[1].amount + SumAmounts(Tail(rows))

\* line 1427: (r.get("category") or "uncategorized").strip() or "uncategorized"
CategoryOf(r) ==
    IF r.category \in {None, "", " "} THEN "uncategorized" ELSE r.category

\* lines 1419-1429: the accumulation into by_cat, one key per category
by_cat(rows) ==
    [ c \in {CategoryOf(rows[i]) : i \in DOMAIN rows} |->
        [ count |-> Len(SelectSeq(rows, LAMBDA r : CategoryOf(r) = c)),
          sum   |-> SumAmounts(SelectSeq(rows, LAMBDA r : CategoryOf(r) = c)) ] ]

\* position of a category among the keys of by_cat: the dict keeps the order
\* in which the loop first met them
FirstSeen(rows, c) ==
    CHOOSE i \in DOMAIN rows :
        /\ CategoryOf(rows[i]) = c
        /\ \A j \in 1..(i - 1) : CategoryOf(rows[j]) # c

TopN == 5

\* mutant: the breakdown is not cut to its first five categories
top_uncut(rows) ==
    LET cats == by_cat(rows)
        Above(d, c) ==
            \/ cats[d].sum > cats[c].sum
            \/ (cats[d].sum = cats[c].sum /\ FirstSeen(rows, d) < FirstSeen(rows, c))
        Rank(c) == 1 + Cardinality({d \in DOMAIN cats : Above(d, c)})
    IN  [ i \in 1..Cardinality(DOMAIN cats) |->
            LET c == CHOOSE c \in DOMAIN cats : Rank(c) = i
            IN  [cat |-> c, sum |-> cats[c].sum, count |-> cats[c].count] ]

\* line 1432: sorted(by_cat.items(), key=sum, reverse=True)[:5]; the sort is
\* stable, so equal sums stay in first-seen order
top(rows) ==
    LET cats == by_cat(rows)
        Above(d, c) ==
            \/ cats[d].sum > cats[c].sum
            \/ (cats[d].sum = cats[c].sum /\ FirstSeen(rows, d) < FirstSeen(rows, c))
        Rank(c) == 1 + Cardinality({d \in DOMAIN cats : Above(d, c)})
        n == IF Cardinality(DOMAIN cats) < TopN THEN Cardinality(DOMAIN cats) ELSE TopN
    IN  [ i \in 1..n |->
            LET c == CHOOSE c \in DOMAIN cats : Rank(c) = i
            IN  [cat |-> c, sum |-> cats[c].sum, count |-> cats[c].count] ]

\* the public id of the served assistant, as secrets.token_urlsafe makes them
PublicId == <<"Q", "7", "x", "_", "k", "2", "L", "m", "9", "a">>

\* lines 1397, 1403: _norm(s).startswith("report")
StartsWithReport(s) ==
    Len(s) >= 6 /\ SubSeq(s, 1, 6) = <<"r", "e", "p", "o", "r", "t">>

\* lines 1395-1399: the message is the first of (public_id, user_text) that
\* starts with a report prefix; a public id that does is read as the one-word
\* message "report..."
InferredMessage(public_id, msg) ==
    IF StartsWithReport(public_id) THEN <<"report">>
    ELSE IF msg # <<>> /\ msg[1] \in ReportPrefixTokens THEN msg
    ELSE <<>>

\* lines 1400-1405: the public id is the first of (public_id, user_text) with
\* no space, 8 characters or more and no report prefix; a user_text that is a
\* report command never qualifies
InferredPublicId(public_id) ==
    IF /\ " " \notin Range(public_id)
       /\ Len(public_id) >= 8
       /\ ~StartsWithReport(public_id)
    THEN <<public_id>>
    ELSE <<>>

\* lines 1448-1455: type and property only when set, from and to always
DownloadUrl(public_id, req) ==
    IF InferredPublicId(public_id) = <<>> THEN <<>>
    ELSE << [ public_id |-> public_id,
              type      |-> req.entry_type,
              property  |-> req.property_slug,
              from      |-> req.date_from,
              to        |-> req.date_to ] >>

\* mutant: a message that looks like an entry is not answered as a report
handle_report_in_chat_entry_first(public_id, led, msg) ==
    LET req == _parse_report_request(InferredMessage(public_id, msg))
    IN  IF req = <<>> \/ looks_like_new_entry(parse_finance_fields(msg)) THEN <<>>
        ELSE << [ req   |-> req[1],
                  total |-> 0,
                  count |-> 0,
                  top   |-> <<>>,
                  download_url |-> DownloadUrl(public_id, req[1]) ] >>

\* <<>> when the message is no report, else the reply
handle_report_in_chat(public_id, led, msg) ==
    LET req == _parse_report_request(InferredMessage(public_id, msg))
    IN  IF req = <<>> THEN <<>>
        ELSE LET rows == finance_list(led, req[1].property_slug, req[1].entry_type,
                                      <<req[1].date_from>>, <<req[1].date_to>>)
             IN  << [ req   |-> req[1],
                      total |-> SumAmounts(rows),
                      count |-> Len(rows),
                      top   |-> top(rows),
                      download_url |-> DownloadUrl(public_id, req[1]) ] >>

(* ------------------------------ chat handler --------------------------- *)
Reply(kind, ask, report) == [kind |-> kind, ask |-> ask, report |-> report]

NoReply == Reply("none", "none", <<>>)

\* msg2 not in rt: the message is part of the text of one stored message
IsInfix(msg, part) ==
    \E i \in 0..(Len(part) - Len(msg)) :
        \A j \in 1..Len(msg) : part[i + j] = msg[j]

InRawText(msg, raw) == \E n \in 1..Len(raw) : IsInfix(msg, raw[n])

\* lines 1540-1548: a pending entry built from this message alone
NewPending(fields, msg) ==
    [ entry_type    |-> fields.entry_type,
      property_slug |-> fields.property_slug,
      amount        |-> fields.amount,
      entry_date    |-> fields.entry_date,
      category      |-> fields.category,
      label         |-> fields.label,
      raw_text      |-> IF fields.raw_text # <<>> THEN fields.raw_text ELSE <<msg>> ]

\* lines 1555-1575: slot filling into the stored pending entry p
MergePending(p, fields, msg) ==
    [ entry_type    |-> IF p.entry_type = None /\ fields.entry_type # None
                        THEN fields.entry_type ELSE p.entry_type,
      property_slug |-> IF p.property_slug = None /\ fields.property_slug # None
                        THEN fields.property_slug ELSE p.property_slug,
      amount        |-> IF p.amount = <<>> /\ fields.amount # <<>>
                        THEN fields.amount ELSE p.amount,
      entry_date    |-> IF date_in_msg(msg) THEN fields.entry_date ELSE p.entry_date,
      category      |-> IF fields.category # None /\ fields.category # "uncategorized"
                        THEN fields.category ELSE p.category,
      label         |-> IF p.label = <<>> /\ fields.label # <<>>
                        THEN fields.label ELSE p.label,
      raw_text      |-> IF msg # <<>> /\ ~InRawText(msg, p.raw_text)
                        THEN Append(p.raw_text, msg) ELSE p.raw_text ]

\* mutant: merchant memory is consulted whatever the category is
WithMerchantGuess_any_category(p, rows) ==
    LET guess == merchant_map_guess_category(rows, p.raw_text)
    IN  IF guess # None THEN [p EXCEPT !.category = guess] ELSE p

\* lines 1577-1581
WithMerchantGuess(p, rows) ==
    IF p.category \in {None, "", "uncategorized"}
    THEN LET guess == merchant_map_guess_category(rows, p.raw_text)
         IN  IF guess # None THEN [p EXCEPT !.category = guess] ELSE p
    ELSE p

\* lines 1589-1600
EntryOf(p, id, msg) ==
    [ id            |-> id,
      entry_date    |-> p.entry_date,
      property_slug |-> p.property_slug,
      entry_type    |-> p.entry_type,
      amount        |-> p.amount[1],
      currency      |-> "EUR",
      category      |-> IF p.category \in {None, ""} THEN "uncategorized" ELSE p.category,
      label         |-> p.label,
      note          |-> None,
      raw_text      |-> IF p.raw_text # <<>> THEN p.raw_text ELSE <<msg>> ]

\* mutant: a stored pending entry is always merged into, never replaced
Merged_keeps_stored(stored, fields, msg) ==
    IF stored = <<>> THEN NewPending(fields, msg)
    ELSE MergePending(stored[1], fields, msg)

\* lines 1539-1575: replace the pending entry or fill its empty slots
Merged(stored, fields, msg) ==
    IF looks_like_new_entry(fields) THEN NewPending(fields, msg)
    ELSE MergePending(stored[1], fields, msg)

Result(store, led, id, reply, ins) ==
    [pending |-> store, ledger |-> led, nextId |-> id, reply |-> reply, ins |-> ins]

\* mutant: the commit writes the ledger and leaves the pending row in place
SlotFilling_commit_keeps_pending(store, led, rows, id, k, msg) ==
    LET stored == finance_pending_get(store, k)
        fields == parse_finance_fields(msg)
    IN  IF db = "down" \/ fields.entry_date = ValueError
        THEN Result(store, led, id, Reply("error", "none", <<>>), <<>>)
        ELSE IF ~looks_like_new_entry(fields) /\ stored = <<>>
        THEN Result(store, led, id, Reply("clarify", "none", <<>>), <<>>)
        ELSE
          LET p == WithMerchantGuess(Merged(stored, fields, msg), rows)
              miss == missing_fields(p)
          IN  IF miss # <<>>
              THEN Result(finance_pending_upsert(store, k, p), led, id,
                          Reply("ask", _ask_next_missing(miss), <<>>), <<>>)
              ELSE IF db = "unset"
              THEN Result(store, led, id, Reply("error", "none", <<>>), <<>>)
              ELSE LET entry == EntryOf(p, id, msg)
                   IN  Result(finance_pending_upsert(store, k, p),
                              finance_insert(led, entry), id + 1,
                              Reply("confirm", "none", <<>>), <<entry>>)

\* the finance-clerk branch of public_chat after greeting and cancel
SlotFilling(store, led, rows, id, k, msg) ==
    LET stored == finance_pending_get(store, k)
        fields == parse_finance_fields(msg)
    IN  IF db = "down" \/ fields.entry_date = ValueError
        THEN Result(store, led, id, Reply("error", "none", <<>>), <<>>)
        ELSE IF ~looks_like_new_entry(fields) /\ stored = <<>>
        THEN Result(store, led, id, Reply("clarify", "none", <<>>), <<>>)
        ELSE
          LET p == WithMerchantGuess(Merged(stored, fields, msg), rows)
              miss == missing_fields(p)
          IN  IF miss # <<>>
              THEN Result(finance_pending_upsert(store, k, p), led, id,
                          Reply("ask", _ask_next_missing(miss), <<>>), <<>>)
              ELSE IF db = "unset"
              THEN Result(store, led, id, Reply("error", "none", <<>>), <<>>)
              ELSE LET entry == EntryOf(p, id, msg)
                   IN  Result(finance_pending_clear(store, k),
                              finance_insert(led, entry), id + 1,
                              Reply("confirm", "none", <<>>), <<entry>>)

\* the report cannot be computed: no database, _month_range raised, or
\* the query compares entry_date with a text that is no date
ReportFails(rep) ==
    \/ db # "ok"
    \/ ~IsCalendarDate(rep[1].req.date_from)
    \/ ~IsCalendarDate(rep[1].req.date_to)

\* mutant: the greeting drops the pending entry of the key
ChatResult_greeting_clears(store, led, rows, id, k, msg) ==
    LET rep == handle_report_in_chat(PublicId, led, msg)
    IN  IF rep # <<>> /\ ReportFails(rep)
        THEN Result(store, led, id, Reply("error", "none", <<>>), <<>>)
        ELSE IF rep # <<>>
        THEN Result(store, led, id, Reply("report", "none", rep), <<>>)
        ELSE IF msg = <<>>
        THEN Result(store, led, id, Reply("bad_request", "none", <<>>), <<>>)
        ELSE IF _is_greeting(msg)
        THEN Result(finance_pending_clear(store, k), led, id,
                    Reply("greeting", "none", <<>>), <<>>)
        ELSE IF _norm_is_cancel(msg) /\ db = "down"
        THEN Result(store, led, id, Reply("error", "none", <<>>), <<>>)
        ELSE IF _norm_is_cancel(msg)
        THEN Result(finance_pending_clear(store, k), led, id,
                    Reply("cancelled", "none", <<>>), <<>>)
        ELSE SlotFilling(store, led, rows, id, k, msg)

ChatResult(store, led, rows, id, k, msg) ==
    LET rep == handle_report_in_chat(PublicId, led, msg)
    IN  IF rep # <<>> /\ ReportFails(rep)
        THEN Result(store, led, id, Reply("error", "none", <<>>), <<>>)
        ELSE IF rep # <<>>
        THEN Result(store, led, id, Reply("report", "none", rep), <<>>)
        ELSE IF msg = <<>>
        THEN Result(store, led, id, Reply("bad_request", "none", <<>>), <<>>)
        ELSE IF _is_greeting(msg)
        THEN Result(store, led, id, Reply("greeting", "none", <<>>), <<>>)
        ELSE IF _norm_is_cancel(msg) /\ db = "down"
        THEN Result(store, led, id, Reply("error", "none", <<>>), <<>>)
        ELSE IF _norm_is_cancel(msg)
        THEN Result(finance_pending_clear(store, k), led, id,
                    Reply("cancelled", "none", <<>>), <<>>)
        ELSE SlotFilling(store, led, rows, id, k, msg)

(* ------------------------------ inputs --------------------------------- *)
Msgs ==
    { <<"plirosa", "nero", "vourvourou", "e20", "d050126">>,
      <<"plirosa", "e35">>,
      <<"e60", "kipo">>,
      <<"vourvourou">>,
      <<"dose", "mou", "exoda", "apo", "d060126", "eos", "d080126">>,
      <<"report", "plirosa", "nero", "vourvourou", "e20">>,
      <<"akuro">>,
      <<"geia">>,
      <<"kati">>,
      <<"thessaloniki", "e60">>,
      <<"eispraxa">>,
      <<"vourvourou", "d080126">>,
      <<"plirosa", "e35", "d310226">>,
      <<>> }

MerchantTables ==
    { <<>>,
      << [token |-> "kati", category |-> "misc"],
         [token |-> "kipo", category |-> "garden"] >> }

(* ------------------------------ state machine -------------------------- *)
NoTurn == [msg |-> <<>>, reply |-> NoReply, before |-> <<>>, ins |-> <<>>,
           prev |-> [kind |-> "none", had |-> FALSE]]

Workers == {"w1", "w2"}

Idle == [pc |-> "idle", k |-> "none", msg |-> <<>>, read |-> <<>>,
         entry |-> <<>>, reply |-> "none"]

InitChat ==
    /\ inflight = [w \in Workers |-> Idle]
    /\ pending = [k \in Keys |-> <<>>]
    /\ ledger = <<>>
    /\ merchant \in MerchantTables
    /\ nextId = 1
    /\ last = [k \in Keys |-> NoTurn]
    /\ who = "none"
    /\ turns = 0

Init ==
    /\ InitChat
    /\ db = "ok"
    /\ fn_in = <<>>
    /\ fn_out = <<>>

public_chat(k, msg) ==
    \E r \in {ChatResult(pending, ledger, merchant, nextId, k, msg)} :
        /\ turns < MaxTurns
        /\ turns' = turns + 1
        /\ who' = k
        /\ pending' = r.pending
        /\ ledger' = r.ledger
        /\ nextId' = r.nextId
        /\ last' = [last EXCEPT ![k] =
                      [msg |-> msg, reply |-> r.reply, before |-> pending[k],
                       ins |-> r.ins,
                       prev |-> [kind |-> last[k].reply.kind,
                                 had |-> last[k].before # <<>>]]]
        /\ UNCHANGED <<merchant, fn_in, fn_out, db, inflight>>

Next == \E k \in Keys, msg \in Msgs : public_chat(k, msg)

Spec == Init /\ [][Next]_vars

\* the same handler in a deployment whose DATABASE_URL may be unset or
\* whose database may be unreachable
InitStore ==
    /\ InitChat
    /\ db \in DbStates
    /\ fn_in = <<>>
    /\ fn_out = <<>>

SpecStore == InitStore /\ [][Next]_vars

\* this step is a chat turn of key k
Turn(k) == turns' = turns + 1 /\ who' = k

\* the message reaches the entry classification of public_chat (line 1533)
EntryPath(msg) ==
    /\ _parse_report_request(msg) = <<>>
    /\ msg # <<>>
    /\ ~_is_greeting(msg)
    /\ ~_norm_is_cancel(msg)

(* ------------------ two requests handled at the same time -------------- *)
\* Each request runs public_chat in its own worker with its own database
\* connection; every finance_* call is one committed transaction and no
\* lock or version spans two of them.  A worker handles one request, in
\* the steps between which another worker can run.

\* the pending entries a first message can leave behind
StartMsgs == { <<"plirosa", "e35">>, <<"thessaloniki", "e60">>, <<>> }

InitConc ==
    /\ db = "ok"
    /\ merchant \in MerchantTables
    /\ \E m \in StartMsgs :
          pending = ChatResult([k \in Keys |-> <<>>], <<>>, merchant, 1,
                               "c1", m).pending
    /\ fn_in = pending
    /\ fn_out = <<>>
    /\ ledger = <<>>
    /\ nextId = 1
    /\ inflight = [w \in Workers |-> Idle]
    /\ last = [k \in Keys |-> NoTurn]
    /\ who = "none"
    /\ turns = 0

\* lines 1470-1533: everything up to and including finance_pending_get; a
\* report, a bad request, a greeting and a cancel end here
public_chat_read(w, k, msg) ==
    /\ inflight[w].pc = "idle"
    /\ IF EntryPath(msg)
       THEN /\ inflight' = [inflight EXCEPT ![w] =
                   [pc |-> "merge", k |-> k, msg |-> msg,
                    read |-> finance_pending_get(pending, k),
                    entry |-> <<>>, reply |-> "none"]]
            /\ UNCHANGED pending
       ELSE \E r \in {ChatResult(pending, ledger, merchant, nextId, k, msg)} :
                /\ inflight' = [inflight EXCEPT ![w] =
                      [pc |-> "done", k |-> k, msg |-> msg, read |-> <<>>,
                       entry |-> <<>>, reply |-> r.reply.kind]]
                /\ pending' = r.pending
    /\ UNCHANGED <<ledger, merchant, nextId, last, who, turns, fn_in, fn_out, db>>

\* lines 1534-1602: classify and merge against the entry that was read,
\* then finance_pending_upsert and the question, or finance_insert
public_chat_write(w) ==
    /\ inflight[w].pc = "merge"
    /\ \E k \in {inflight[w].k} :
       \E r \in {SlotFilling([pending EXCEPT ![k] = inflight[w].read], ledger,
                             merchant, nextId, k, inflight[w].msg)} :
        /\ IF r.reply.kind = "ask"
           THEN /\ pending' = finance_pending_upsert(pending, k, r.pending[k][1])
                /\ inflight' = [inflight EXCEPT ![w].pc = "done",
                                                ![w].reply = "ask"]
                /\ UNCHANGED <<ledger, nextId>>
           ELSE IF r.reply.kind = "confirm"
           THEN /\ ledger' = r.ledger
                /\ nextId' = r.nextId
                /\ inflight' = [inflight EXCEPT ![w].pc = "clear",
                                                ![w].entry = r.ins]
                /\ UNCHANGED pending
           ELSE /\ inflight' = [inflight EXCEPT ![w].pc = "done",
                                                ![w].reply = r.reply.kind]
                /\ UNCHANGED <<pending, ledger, nextId>>
        /\ UNCHANGED <<merchant, last, who, turns, fn_in, fn_out, db>>

\* lines 1603-1609: finance_pending_clear and the confirmation
public_chat_clear(w) ==
    /\ inflight[w].pc = "clear"
    /\ pending' = finance_pending_clear(pending, inflight[w].k)
    /\ inflight' = [inflight EXCEPT ![w].pc = "done", ![w].reply = "confirm"]
    /\ UNCHANGED <<ledger, merchant, nextId, last, who, turns, fn_in, fn_out, db>>

\* line 1603 when the connection of finance_pending_clear cannot be opened:
\* psycopg2.connect raises after the insert is committed and lines
\* 1615-1617 answer 500
public_chat_clear_raises(w) ==
    /\ inflight[w].pc = "clear"
    /\ inflight' = [inflight EXCEPT ![w].pc = "done", ![w].reply = "error"]
    /\ UNCHANGED <<pending, ledger, merchant, nextId, last, who, turns,
                   fn_in, fn_out, db>>

NextConc ==
    \E w \in Workers :
        \/ \E k \in Keys, msg \in Msgs : public_chat_read(w, k, msg)
        \/ public_chat_write(w)
        \/ public_chat_clear(w)
        \/ public_chat_clear_raises(w)

SpecConc == InitConc /\ [][NextConc]_vars

(* ------------------- missing_fields / _ask_next_missing ---------------- *)
\* arguments of missing_fields: a state dict with any of the three required
\* slots unset
PendingStates ==
    [ entry_type    : {None, "expense", "income"},
      property_slug : {None, "thessaloniki", "vourvourou"},
      amount        : {<<>>, <<2000>>, <<3500>>, <<6000>>},
      entry_date    : {Today},
      category      : {"uncategorized", "utilities"},
      label         : {<<>>},
      raw_text      : {<< <<"kati">> >>} ]

InitAsk ==
    /\ InitChat
    /\ db = "ok"
    /\ fn_in \in PendingStates
    /\ fn_out = <<>>

AskNext ==
    /\ fn_out = <<>>
    /\ fn_out' = << [ missing |-> missing_fields(fn_in),
                      ask     |-> _ask_next_missing(missing_fields(fn_in)) ] >>
    /\ UNCHANGED <<pending, ledger, merchant, nextId, last, who, turns, fn_in,
                   db, inflight>>

NextAsk == AskNext

SpecAsk == InitAsk /\ [][NextAsk]_vars

(* ------------------------- _parse_report_request ----------------------- *)
\* the ways a report text names its dates: not at all, "range X Y",
\* "από X έως Y", two dates anywhere, the month keyword
ExplicitForms ==
    { <<"range", a, b>> : a \in DateWords \cup IsoWords,
                           b \in DateWords \cup IsoWords }
    \cup { <<"apo", a, "eos", b>> : a \in DateWords \cup IsoWords,
                                    b \in DateWords \cup IsoWords }
    \cup { <<a, b>> : a \in DateWords \cup IsoWords,
                      b \in DateWords \cup IsoWords }

RangeForms ==
    {<<>>, <<"mina">>, <<"mina", "ym202601">>, <<"mina", "ym202613">>}
    \cup ExplicitForms
    \cup { <<"mina">> \o r : r \in ExplicitForms }

ReportTexts ==
    { <<p>> \o t \o r : p \in ReportPrefixTokens,
                         t \in {<<>>, <<"exoda">>}, r \in RangeForms }
    \cup { <<"dose", "mou", "exoda", "apo", "d060126", "eos", "d080126">> }

InitReport ==
    /\ InitChat
    /\ db = "ok"
    /\ fn_in \in ReportTexts
    /\ fn_out = <<>>

ParseReport ==
    /\ fn_out = <<>>
    /\ fn_out' = << _parse_report_request(fn_in) >>
    /\ UNCHANGED <<pending, ledger, merchant, nextId, last, who, turns, fn_in,
                   db, inflight>>

NextReport == ParseReport

SpecReport == InitReport /\ [][NextReport]_vars

(* ------------------- reports and exports over a ledger ----------------- *)
\* a ledger row as finance_list returns it
Row(id, category, entry_type, property_slug, entry_date, amount) ==
    [ id            |-> id,
      entry_date    |-> entry_date,
      property_slug |-> property_slug,
      entry_type    |-> entry_type,
      amount        |-> amount,
      currency      |-> "EUR",
      category      |-> category,
      label         |-> None,
      note          |-> None,
      raw_text      |-> <<>> ]

\* the rows a ledger of this section is made of; a row with amount 0 in the
\* choice below is left out of the ledger
LedgerRows(a) ==
    << Row(1, "utilities",     "expense", "vourvourou",   20260105, a[1]),
       Row(2, "groceries",     "expense", "thessaloniki", 20260106, a[2]),
       Row(3, "transport",     "expense", "vourvourou",   20260107, a[3]),
       Row(4, "dining",        "expense", "vourvourou",   20260107, a[4]),
       Row(5, "bars_coffee",   "expense", "thessaloniki", 20260108, a[5]),
       Row(6, "",              "expense", "vourvourou",   20260106, a[6]),
       Row(7, "rental_income", "income",  "vourvourou",   20260106, a[7]),
       Row(8, "uncategorized", "expense", "vourvourou",   20260107, a[8]) >>

ReportLedgers ==
    { SelectSeq(LedgerRows(<<a1, a2, a3, a4, a5, a6, a7, a8>>),
                LAMBDA r : r.amount # 0) :
        a1 \in {0, 1000, 2000}, a2 \in {0, 1000, 2000}, a3 \in {0, 1000, 2000},
        a4 \in {0, 1000, 2000}, a5 \in {0, 1000}, a6 \in {0, 2000},
        a7 \in {0, 3000}, a8 \in {0, 550} }

LedgerTexts ==
    { <<"report", "range", "d050126", "d080126">>,
      <<"report", "thessaloniki", "range", "d050126", "d080126">>,
      <<"report", "exoda", "range", "d060126", "d080126">>,
      <<"report", "vourvourou">> }

PublicIds ==
    { PublicId,
      <<"f", "i", "n">>,
      <<"r", "e", "p", "o", "r", "t", "b", "o", "t", "1">> }

InitLedger ==
    /\ inflight = [w \in Workers |-> Idle]
    /\ pending = [k \in Keys |-> <<>>]
    /\ ledger \in ReportLedgers
    /\ merchant = <<>>
    /\ nextId = 9
    /\ last = [k \in Keys |-> NoTurn]
    /\ who = "none"
    /\ turns = 0
    /\ db = "ok"
    /\ fn_in \in [public_id : PublicIds, msg : LedgerTexts]
    /\ fn_out = <<>>

\* lines 1830-1833: (request.args.get(name) or "").strip() or None
ArgOrNone(v) == IF v \in {None, "", " "} THEN None ELSE v

\* lines 1845-1856: one line of the export
CsvRow(r) ==
    [ date |-> r.entry_date, property |-> r.property_slug, type |-> r.entry_type,
      amount |-> r.amount, currency |-> r.currency, category |-> r.category,
      label |-> r.label, id |-> r.id ]

\* lines 1830-1856: the export of the rows the query arguments select
finance_report_csv(led, args) ==
    LET rows == finance_list(led, ArgOrNone(args.property), ArgOrNone(args.type),
                             <<args.from>>, <<args.to>>)
    IN  [i \in DOMAIN rows |-> CsvRow(rows[i])]

\* POST /p/<public_id>/chat with a report text
ReportInChat ==
    /\ fn_out = <<>>
    /\ fn_out' = << [ rep |-> handle_report_in_chat(fn_in.public_id, ledger, fn_in.msg),
                      csv |-> <<>> ] >>
    /\ UNCHANGED <<pending, ledger, merchant, nextId, last, who, turns, fn_in,
                   db, inflight>>

\* GET of the download_url of the report reply
FollowDownloadUrl ==
    /\ fn_out # <<>>
    /\ fn_out[1].rep # <<>>
    /\ fn_out[1].rep[1].download_url # <<>>
    /\ fn_out[1].csv = <<>>
    /\ fn_out' = << [ rep |-> fn_out[1].rep,
                      csv |-> << finance_report_csv(ledger, fn_out[1].rep[1].download_url[1]) >> ] >>
    /\ UNCHANGED <<pending, ledger, merchant, nextId, last, who, turns, fn_in,
                   db, inflight>>

NextLedger == ReportInChat \/ FollowDownloadUrl

SpecLedger == InitLedger /\ [][NextLedger]_vars

(* ------------------------ finance_insert, then finance_list ------------ *)
\* entries as lines 1589-1600 build them, the next id being 9
InsertEntries ==
    { Row(9, "utilities",     "expense", "vourvourou",   20260105, 2050),
      Row(9, "uncategorized", "income",  "thessaloniki", 20260108, 0),
      Row(9, "rental_income", "income",  "vourvourou",   20260107, 120000),
      Row(9, "groceries",     "expense", "thessaloniki", 20251231, 1) }

\* the filter arguments of finance_list
ListFilters ==
    [ property_slug : {None, "vourvourou"},
      entry_type    : {None, "expense"},
      dates         : { <<<<>>, <<>>>>,
                        <<<<20260105>>, <<20260108>>>>,
                        <<<<20260106>>, <<20260107>>>> } ]

InitInsert ==
    /\ inflight = [w \in Workers |-> Idle]
    /\ pending = [k \in Keys |-> <<>>]
    /\ ledger \in ReportLedgers
    /\ merchant = <<>>
    /\ nextId = 9
    /\ last = [k \in Keys |-> NoTurn]
    /\ who = "none"
    /\ turns = 0
    /\ db = "ok"
    /\ fn_in \in InsertEntries
    /\ fn_out = <<>>

InsertEntry ==
    /\ nextId = 9
    /\ ledger' = finance_insert(ledger, fn_in)
    /\ nextId' = nextId + 1
    /\ UNCHANGED <<pending, merchant, last, who, turns, fn_in, fn_out, db, inflight>>

ListEntries ==
    /\ nextId = 10
    /\ fn_out = <<>>
    /\ \E f \in ListFilters :
         fn_out' = << [ filters |-> f,
                        rows    |-> finance_list(ledger, f.property_slug, f.entry_type,
                                                 f.dates[1], f.dates[2]) ] >>
    /\ UNCHANGED <<pending, ledger, merchant, nextId, last, who, turns, fn_in,
                   db, inflight>>

NextInsert == InsertEntry \/ ListEntries

SpecInsert == InitInsert /\ [][NextInsert]_vars

(* ---------------- chat next to undo_last, delete and the reset ---------- *)
EditMsgs ==
    { <<"plirosa", "nero", "vourvourou", "e20", "d050126">>,
      <<"thessaloniki", "e60">>,
      <<"plirosa", "e35">>,
      <<"vourvourou">>,
      <<"akuro">>,
      <<"geia">>,
      <<"kati">>,
      <<"report", "plirosa", "nero", "vourvourou", "e20">> }

\* mutant: the row with the least created_at is deleted
finance_undo_last_oldest(led, property_slug) ==
    LET cand == { i \in DOMAIN led :
                    property_slug # None => led[i].property_slug = property_slug }
    IN  IF cand = {} THEN led
        ELSE LET oldest == CHOOSE i \in cand : \A j \in cand : i <= j
             IN  SubSeq(led, 1, oldest - 1) \o SubSeq(led, oldest + 1, Len(led))

\* lines 1641-1672: the row with the greatest created_at, of the property
\* when one is given, is deleted; rows are appended in created_at order
finance_undo_last(led, property_slug) ==
    LET cand == { i \in DOMAIN led :
                    property_slug # None => led[i].property_slug = property_slug }
    IN  IF cand = {} THEN led
        ELSE LET newest == CHOOSE i \in cand : \A j \in cand : j <= i
             IN  SubSeq(led, 1, newest - 1) \o SubSeq(led, newest + 1, Len(led))

\* line 1703: DELETE FROM finance_entries WHERE id=%s
finance_delete(led, id) == SelectSeq(led, LAMBDA e : e.id # id)

\* line 1104: DELETE FROM finance_entries
admin_reset_finance(led) == <<>>

\* a request to one of the three routes; without confirm the first two
\* answer 400 and change nothing
Edit(op, led) ==
    /\ turns < MaxTurns
    /\ db = "ok"
    /\ turns' = turns + 1
    /\ who' = op
    /\ ledger' = led
    /\ UNCHANGED <<pending, merchant, nextId, last, fn_in, fn_out, db, inflight>>

UndoLast ==
    \E confirm \in BOOLEAN, property_slug \in {None, "vourvourou"} :
        Edit("undo_last",
             IF confirm THEN finance_undo_last(ledger, property_slug) ELSE ledger)

Delete ==
    \E confirm \in BOOLEAN, id \in 1..2 :
        Edit("delete", IF confirm THEN finance_delete(ledger, id) ELSE ledger)

AdminReset == Edit("admin_reset_finance", admin_reset_finance(ledger))

NextEdit ==
    \/ \E k \in Keys, msg \in EditMsgs : public_chat(k, msg)
    \/ UndoLast
    \/ Delete
    \/ AdminReset

SpecEdit == Init /\ [][NextEdit]_vars

(* ------------------------------ _norm ---------------------------------- *)
\* a text is a sequence of characters; the characters that tell the steps of
\* the two normalizers apart
Chars ==
    { "a",             \* a lowercase letter
      "A",             \* its uppercase
      "a_acute",       \* U+00E1, canonically a + U+0301
      "acute",         \* U+0301 COMBINING ACUTE ACCENT
      "space",
      "tone",          \* U+302E HANGUL SINGLE DOT TONE MARK
      "adeg",          \* U+1B44 BALINESE ADEG ADEG
      "candrabindu" }  \* U+0901 DEVANAGARI SIGN CANDRABINDU

Texts == UNION { [1..n -> Chars] : n \in 0..MaxText }

\* unicodedata.category
Category(c) ==
    CASE c \in {"acute", "candrabindu"} -> "Mn"
      [] c \in {"tone", "adeg"} -> "Mc"
      [] c = "space" -> "Zs"
      [] c = "A" -> "Lu"
      [] OTHER -> "Ll"

\* unicodedata.combining, the canonical combining class
Combining(c) ==
    CASE c = "acute" -> 230
      [] c = "tone" -> 224
      [] c = "adeg" -> 9
      [] OTHER -> 0

\* str.casefold and str.lower agree on these characters
casefold(s) == [i \in DOMAIN s |-> IF s[i] = "A" THEN "a" ELSE s[i]]

lower(s) == [i \in DOMAIN s |-> IF s[i] = "A" THEN "a" ELSE s[i]]

RECURSIVE Decompose(_)
Decompose(s) ==
    IF s = <<>> THEN <<>>
    ELSE IF s[1] = "a_acute" THEN <<"a", "acute">> \o Decompose(Tail(s))
    ELSE <<s[1]>> \o Decompose(Tail(s))

\* the canonical ordering: marks next to each other are put in the order of
\* their combining classes, marks of class 0 staying where they are
OutOfOrder(s) ==
    { i \in 1..(Len(s) - 1) :
        Combining(s[i + 1]) > 0 /\ Combining(s[i]) > Combining(s[i + 1]) }

RECURSIVE Reorder(_)
Reorder(s) ==
    IF OutOfOrder(s) = {} THEN s
    ELSE Reorder([ i \in DOMAIN s |->
                     IF i = CHOOSE j \in OutOfOrder(s) : \A m \in OutOfOrder(s) : j <= m
                     THEN s[i + 1]
                     ELSE IF i - 1 \in OutOfOrder(s)
                             /\ \A m \in OutOfOrder(s) : i - 1 <= m
                     THEN s[i - 1]
                     ELSE s[i] ])

\* unicodedata.normalize("NFD", s)
NFD(s) == Reorder(Decompose(s))

StripMn(s) == SelectSeq(s, LAMBDA c : Category(c) # "Mn")

\* lines 423-426
_norm(s) == StripMn(NFD(casefold(s)))

RECURSIVE lstrip(_)
lstrip(s) ==
    IF s # <<>> /\ s[1] = "space" THEN lstrip(Tail(s)) ELSE s

RECURSIVE rstrip(_)
rstrip(s) ==
    IF s # <<>> /\ s[Len(s)] = "space" THEN rstrip(SubSeq(s, 1, Len(s) - 1)) ELSE s

strip(s) == rstrip(lstrip(s))

\* re.sub(r"\s+", " ", s)
RECURSIVE CollapseSpaces(_)
CollapseSpaces(s) ==
    IF Len(s) < 2 THEN s
    ELSE IF s[1] = "space" /\ s[2] = "space" THEN CollapseSpaces(Tail(s))
    ELSE <<s[1]>> \o CollapseSpaces(Tail(s))

\* lines 1247-1252
_strip_accents(s) == IF s = <<>> THEN <<>> ELSE StripMn(NFD(s))

\* lines 1254-1258, the second definition of _norm
_norm_report(s) == CollapseSpaces(_strip_accents(lower(strip(s))))

InitNorm ==
    /\ inflight = [w \in Workers |-> Idle]
    /\ pending = [k \in Keys |-> <<>>]
    /\ ledger = <<>>
    /\ merchant = <<>>
    /\ nextId = 1
    /\ last = [k \in Keys |-> NoTurn]
    /\ who = "none"
    /\ turns = 0
    /\ db = "ok"
    /\ fn_in \in Texts
    /\ fn_out = <<>>

Normalize ==
    /\ fn_out = <<>>
    /\ fn_out' = << [first |-> _norm(fn_in), second |-> _norm_report(fn_in)] >>
    /\ UNCHANGED <<pending, ledger, merchant, nextId, last, who, turns, fn_in,
                   db, inflight>>

NextNorm == Normalize

SpecNorm == InitNorm /\ [][NextNorm]_vars

(* --------------------- merchant_map_set, then guess -------------------- *)
\* spellings of one merchant token, which _norm all turns into "a", and a
\* token of another merchant
Spellings ==
    { <<"a">>, <<"A">>, <<"a_acute">>, <<"space", "a">>, <<"adeg">> }

SetCategories == {"groceries", "dining"}

\* lines 537-546: token and category are stripped; the row of that token is
\* inserted, or its category replaced (ON CONFLICT(token)); the key is the
\* token as it is spelled
merchant_map_set(rows, token, category) ==
    IF \E i \in DOMAIN rows : rows[i].token = strip(token)
    THEN [ i \in DOMAIN rows |->
             IF rows[i].token = strip(token)
             THEN [token |-> rows[i].token, category |-> category]
             ELSE rows[i] ]
    ELSE Append(rows, [token |-> strip(token), category |-> category])

\* lines 554-565 on a text of characters: the category of the first row whose
\* normalized token is part of the normalized text; the SELECT has no ORDER
\* BY, so any of these rows can be the first
Guesses(rows, text) ==
    { rows[i].category :
        i \in { j \in DOMAIN rows : IsInfix(_norm(rows[j].token), _norm(text)) } }

InitMerchant ==
    /\ inflight = [w \in Workers |-> Idle]
    /\ pending = [k \in Keys |-> <<>>]
    /\ ledger = <<>>
    /\ merchant = <<>>
    /\ nextId = 1
    /\ last = [k \in Keys |-> NoTurn]
    /\ who = "none"
    /\ turns = 0
    /\ db = "ok"
    /\ fn_in = <<>>
    /\ fn_out = <<>>

\* fn_in keeps the calls made so far
SetMerchant ==
    /\ Len(fn_in) < MaxSets
    /\ fn_out = <<>>
    /\ \E token \in Spellings, category \in SetCategories :
         /\ merchant' = merchant_map_set(merchant, token, category)
         /\ fn_in' = Append(fn_in, [token |-> token, category |-> category])
    /\ UNCHANGED <<pending, ledger, nextId, last, who, turns, fn_out, db, inflight>>

\* a guess on the text "a a"
GuessMerchant ==
    /\ fn_out = <<>>
    /\ IF Guesses(merchant, <<"a", "space", "a">>) = {}
       THEN fn_out' = <<None>>
       ELSE \E c \in Guesses(merchant, <<"a", "space", "a">>) : fn_out' = <<c>>
    /\ UNCHANGED <<pending, ledger, merchant, nextId, last, who, turns, fn_in,
                   db, inflight>>

NextMerchant == SetMerchant \/ GuessMerchant

SpecMerchant == InitMerchant /\ [][NextMerchant]_vars

(* --------------------- who may use the chat route ---------------------- *)
\* what a request's public id resolves to (assistant: "none" when no public
\* assistant has it), whether that assistant's config has requires_key, and
\* whether the request carries the FINANCE_KEY
Callers ==
    { [assistant |-> "finance_clerk", enabled |-> TRUE,  requires_key |-> TRUE,  key_ok |-> TRUE],
      [assistant |-> "finance_clerk", enabled |-> TRUE,  requires_key |-> TRUE,  key_ok |-> FALSE],
      [assistant |-> "finance_clerk", enabled |-> FALSE, requires_key |-> FALSE, key_ok |-> FALSE],
      [assistant |-> "llm",           enabled |-> TRUE,  requires_key |-> FALSE, key_ok |-> FALSE],
      [assistant |-> "none",          enabled |-> FALSE, requires_key |-> FALSE, key_ok |-> FALSE] }

CallerMsgs ==
    { <<"plirosa", "nero", "vourvourou", "e20", "d050126">>,
      <<"plirosa", "e35">>,
      <<"vourvourou">>,
      <<"akuro">>,
      <<"report", "plirosa", "nero", "vourvourou", "e20">> }

\* lines 1486-1520 and 1611-1617: the report first, then the assistant
\* lookup (404), the key (abort(401), answered by the except clause), the
\* finance clerk's flow or the LLM assistant
RequestResult(store, led, rows, id, k, msg, c) ==
    IF handle_report_in_chat(PublicId, led, msg) # <<>>
    THEN ChatResult(store, led, rows, id, k, msg)
    ELSE IF c.assistant = "none" \/ ~c.enabled
    THEN Result(store, led, id, Reply("not_found", "none", <<>>), <<>>)
    ELSE IF c.requires_key /\ ~c.key_ok
    THEN Result(store, led, id, Reply("error", "none", <<>>), <<>>)
    ELSE IF c.assistant = "finance_clerk"
    THEN ChatResult(store, led, rows, id, k, msg)
    ELSE Result(store, led, id, Reply("llm", "none", <<>>), <<>>)

\* POST /p/<public_id>/chat by any caller; fn_in keeps who it was
public_chat_by(k, msg, c) ==
    \E r \in {RequestResult(pending, ledger, merchant, nextId, k, msg, c)} :
        /\ turns < MaxTurns
        /\ turns' = turns + 1
        /\ who' = k
        /\ fn_in' = c
        /\ pending' = r.pending
        /\ ledger' = r.ledger
        /\ nextId' = r.nextId
        /\ last' = [last EXCEPT ![k] =
                      [msg |-> msg, reply |-> r.reply, before |-> pending[k],
                       ins |-> r.ins,
                       prev |-> [kind |-> last[k].reply.kind,
                                 had |-> last[k].before # <<>>]]]
        /\ UNCHANGED <<merchant, fn_out, db, inflight>>

InitCallers ==
    /\ InitChat
    /\ db = "ok"
    /\ fn_in \in Callers
    /\ fn_out = <<>>

NextCallers ==
    \E k \in Keys, msg \in CallerMsgs, c \in Callers : public_chat_by(k, msg, c)

SpecCallers == InitCallers /\ [][NextCallers]_vars

(* ------------- undo_last and delete, with what they answer ------------- *)
\* ledgers of up to four rows, in created_at order
UndoLedgers ==
    { SelectSeq(LedgerRows(<<a1, a2, a3, a4, 0, 0, 0, 0>>), LAMBDA r : r.amount # 0) :
        a1 \in {0, 1000}, a2 \in {0, 1000}, a3 \in {0, 1000}, a4 \in {0, 1000} }

UndoCallers ==
    { c \in Callers : c.assistant # "llm" /\ (c.enabled \/ c.assistant = "none") }

\* the property_slug and id fields of the request body; <<>> is an absent id
UndoProperties == {None, "", "vourvourou", "thessaloniki", "paros"}
DeleteIds == {<<>>, <<1>>, <<3>>, <<7>>, <<9>>}

\* lines 578-595: the status of the error, 200 when there is none
_finance_auth_and_get_clerk(c) ==
    IF c.assistant = "none" \/ ~c.enabled THEN 404
    ELSE IF c.requires_key /\ ~c.key_ok THEN 401
    ELSE IF c.assistant # "finance_clerk" THEN 404
    ELSE 200

\* line 1631: (data.get("property_slug") or "").strip() or None
PropertyArg(property_slug) == IF property_slug = "" THEN None ELSE property_slug

\* lines 1624-1678: the status and message of the answer, and the ledger
\* after it
undo_last_route(led, c, confirm, property_slug) ==
    IF _finance_auth_and_get_clerk(c) # 200
    THEN [status |-> _finance_auth_and_get_clerk(c), message |-> "error", ledger |-> led]
    ELSE IF ~confirm
    THEN [status |-> 400, message |-> "error", ledger |-> led]
    ELSE IF db # "ok"
    THEN [status |-> 500, message |-> "error", ledger |-> led]
    ELSE IF finance_undo_last(led, PropertyArg(property_slug)) = led
    THEN [status |-> 200, message |-> "Nothing to undo", ledger |-> led]
    ELSE [status |-> 200, message |-> "undone_id",
          ledger |-> finance_undo_last(led, PropertyArg(property_slug))]

\* lines 1685-1708
delete_route(led, c, confirm, id) ==
    IF _finance_auth_and_get_clerk(c) # 200
    THEN [status |-> _finance_auth_and_get_clerk(c), message |-> "error", ledger |-> led]
    ELSE IF id = <<>> \/ ~confirm
    THEN [status |-> 400, message |-> "error", ledger |-> led]
    ELSE IF db # "ok"
    THEN [status |-> 500, message |-> "error", ledger |-> led]
    ELSE IF finance_delete(led, id[1]) = led
    THEN [status |-> 404, message |-> "error", ledger |-> led]
    ELSE [status |-> 200, message |-> "deleted_id", ledger |-> finance_delete(led, id[1])]

InitUndo ==
    /\ inflight = [w \in Workers |-> Idle]
    /\ pending = [k \in Keys |-> <<>>]
    /\ ledger \in UndoLedgers
    /\ merchant = <<>>
    /\ nextId = 9
    /\ last = [k \in Keys |-> NoTurn]
    /\ who = "none"
    /\ turns = 0
    /\ db \in {"ok", "unset"}
    /\ fn_in = <<>>
    /\ fn_out = <<>>

\* a request to one of the two routes; fn_in keeps the request and the
\* ledger it met, fn_out the answer
EditRequest(op, c, confirm, arg, r) ==
    /\ turns < MaxTurns
    /\ turns' = turns + 1
    /\ who' = op
    /\ fn_in' = [op |-> op, caller |-> c, confirm |-> confirm, arg |-> arg,
                 before |-> ledger]
    /\ fn_out' = << [status |-> r.status, message |-> r.message] >>
    /\ ledger' = r.ledger
    /\ UNCHANGED <<pending, merchant, nextId, last, db, inflight>>

UndoLastRequest ==
    \E c \in UndoCallers, confirm \in BOOLEAN, property_slug \in UndoProperties :
        EditRequest("undo_last", c, confirm, <<property_slug>>,
                    undo_last_route(ledger, c, confirm, property_slug))

DeleteRequest ==
    \E c \in UndoCallers, confirm \in BOOLEAN, id \in DeleteIds :
        EditRequest("delete", c, confirm, id, delete_route(ledger, c, confirm, id))

\* a chat turn that commits an entry of Thessaloniki under the next id
CommitEntry ==
    /\ turns < MaxTurns
    /\ db = "ok"
    /\ nextId = 9
    /\ turns' = turns + 1
    /\ who' = "public_chat"
    /\ ledger' = finance_insert(ledger, Row(nextId, "groceries", "expense",
                                            "thessaloniki", 20260108, 1000))
    /\ nextId' = nextId + 1
    /\ fn_in' = <<>>
    /\ fn_out' = <<>>
    /\ UNCHANGED <<pending, merchant, last, db, inflight>>

NextUndo == UndoLastRequest \/ DeleteRequest \/ CommitEntry

SpecUndo == InitUndo /\ [][NextUndo]_vars

(* ----------------------- the chat rate limiter ------------------------- *)
\* lines 354-355: both are read from the environment (RL_WINDOW_SECONDS,
\* RL_MAX_REQ); the settings of this section
WINDOW_SECONDS == 2
MAX_REQ_PER_WINDOW == 2

\* the last reading of time.time() the section draws
MaxTime == 3

\* get_client_ip (lines 358-362): the first address of X-Forwarded-For,
\* else the peer address
Ips == {"10.0.0.1", "10.0.0.2"}

\* app.run (line 1925) serves each request on a thread of its own; RATE
\* (line 353) is shared by the threads.  fn_in holds the clock and RATE,
\* fn_out the timestamps of the accepted requests of each address
InitRate ==
    /\ inflight = [w \in Workers |-> Idle]
    /\ pending = [k \in Keys |-> <<>>]
    /\ ledger = <<>>
    /\ merchant = <<>>
    /\ nextId = 1
    /\ last = [k \in Keys |-> NoTurn]
    /\ who = "none"
    /\ turns = 0
    /\ db = "ok"
    /\ fn_in = [time |-> 0, RATE |-> [ip \in Ips |-> <<>>]]
    /\ fn_out = [ip \in Ips |-> <<>>]

\* time.time() moves on
Tick ==
    /\ fn_in.time < MaxTime
    /\ fn_in' = [fn_in EXCEPT !.time = fn_in.time + 1]
    /\ UNCHANGED <<pending, ledger, merchant, nextId, last, who, turns, fn_out,
                   db, inflight>>

\* lines 366-368: ip = get_client_ip(); now = time.time(); q = RATE[ip]
rate_limited_enter(w, ip) ==
    /\ inflight[w].pc \in {"idle", "done"}
    /\ turns < MaxTurns
    /\ turns' = turns + 1
    /\ who' = w
    /\ inflight' = [inflight EXCEPT ![w] =
          [pc |-> "while", k |-> ip, msg |-> <<>>, read |-> <<fn_in.time>>,
           entry |-> <<>>, reply |-> "none"]]
    /\ UNCHANGED <<pending, ledger, merchant, nextId, last, fn_in, fn_out, db>>

\* line 370: while q and now - q[0] > WINDOW_SECONDS
rate_limited_while(w) ==
    /\ inflight[w].pc = "while"
    /\ \E q \in {fn_in.RATE[inflight[w].k]} :
         inflight' = [inflight EXCEPT ![w].pc =
             IF q # <<>> /\ inflight[w].read[1] - q[1] > WINDOW_SECONDS
             THEN "popleft" ELSE "if"]
    /\ UNCHANGED <<pending, ledger, merchant, nextId, last, who, turns, fn_in,
                   fn_out, db>>

\* line 371: q.popleft(); IndexError on an empty deque, which no handler
\* catches
rate_limited_popleft(w) ==
    /\ inflight[w].pc = "popleft"
    /\ \E q \in {fn_in.RATE[inflight[w].k]} :
         IF q = <<>>
         THEN /\ inflight' = [inflight EXCEPT ![w].pc = "done", ![w].reply = "error"]
              /\ UNCHANGED fn_in
         ELSE /\ inflight' = [inflight EXCEPT ![w].pc = "while"]
              /\ fn_in' = [fn_in EXCEPT !.RATE[inflight[w].k] = Tail(q)]
    /\ UNCHANGED <<pending, ledger, merchant, nextId, last, who, turns, fn_out, db>>

\* lines 373-374: if len(q) >= MAX_REQ_PER_WINDOW: return ..., 429
rate_limited_if(w) ==
    /\ inflight[w].pc = "if"
    /\ inflight' = [inflight EXCEPT
          ![w].pc    = IF Len(fn_in.RATE[inflight[w].k]) >= MAX_REQ_PER_WINDOW
                       THEN "done" ELSE "append",
          ![w].reply = IF Len(fn_in.RATE[inflight[w].k]) >= MAX_REQ_PER_WINDOW
                       THEN "429" ELSE "none"]
    /\ UNCHANGED <<pending, ledger, merchant, nextId, last, who, turns, fn_in,
                   fn_out, db>>

\* lines 376-377: q.append(now); return None, and public_chat goes on
rate_limited_append(w) ==
    /\ inflight[w].pc = "append"
    /\ fn_in' = [fn_in EXCEPT !.RATE[inflight[w].k] = Append(@, inflight[w].read[1])]
    /\ fn_out' = [fn_out EXCEPT ![inflight[w].k] = Append(@, inflight[w].read[1])]
    /\ inflight' = [inflight EXCEPT ![w].pc = "done", ![w].reply = "accepted"]
    /\ UNCHANGED <<pending, ledger, merchant, nextId, last, who, turns, db>>

NextRate ==
    \/ Tick
    \/ \E w \in Workers :
          \/ \E ip \in Ips : rate_limited_enter(w, ip)
          \/ rate_limited_while(w)
          \/ rate_limited_popleft(w)
          \/ rate_limited_if(w)
          \/ rate_limited_append(w)

SpecRate == InitRate /\ [][NextRate]_vars

(* ------------------- the assistant revision store ---------------------- *)
\* db_store.py.  fn_in holds the two tables, the assistants directory and
\* the number of public ids issued; fn_out the last call.  The columns name,
\* created_at, updated_at and created_by are left out.
Slugs == {"finance_clerk", "guide"}

\* sorted(base.iterdir()), line 385
SlugOrder == <<"finance_clerk", "guide">>

NULL == 0

\* what json.loads gives for a config.json: {}, {"enabled": false} and
\* {"max_tokens": 1e23}, whose number is a float
Configs == {"empty", "enabled_false", "max_tokens_float_1e23"}

\* a config written to the JSONB column and read back (lines 55, 159, 196,
\* 425-426, 441): jsonb keeps a number as numeric and prints it without an
\* exponent, so 1e23 comes back as the int 100000000000000000000000, which
\* Python does not find equal to the float
Jsonb(config) ==
    IF config = "max_tokens_float_1e23" THEN "max_tokens_int_10pow23" ELSE config

\* the folders of the assistants directory: no config.json, or the parsed
\* config.json and the text of prompt.md
Folders ==
    { <<>>,
      <<[config |-> "empty", prompt |-> ""]>>,
      <<[config |-> "empty", prompt |-> "prompt"]>>,
      <<[config |-> "enabled_false", prompt |-> ""]>>,
      <<[config |-> "max_tokens_float_1e23", prompt |-> ""]>> }

\* the assistants directory at the start: the second folder is absent or
\* has a config.json of {}
Directories ==
    { f \in [Slugs -> Folders] :
        f["guide"] \in {<<>>, <<[config |-> "empty", prompt |-> ""]>>} }

\* the config and prompt an admin sends to create_assistant and
\* update_assistant
Posted ==
    { [config |-> "empty", prompt |-> "prompt"],
      [config |-> "max_tokens_float_1e23", prompt |-> ""] }

\* the rows of the two tables (lines 38-59)
AssistantRow(id, enabled, is_public, public_id, current_revision_id) ==
    [ id |-> id, enabled |-> enabled, is_public |-> is_public,
      public_id |-> public_id, current_revision_id |-> current_revision_id ]

RevisionRow(assistant_id, revision, config, prompt) ==
    [ assistant_id |-> assistant_id, revision |-> revision,
      config |-> Jsonb(config), prompt |-> prompt ]

\* the next value of the sequence of assistants.id
NextAssistantId(d) == Cardinality({ s \in Slugs : d.assistants[s] # <<>> }) + 1

\* COALESCE(MAX(revision), 0) of an assistant (lines 184-188, 433)
MaxRevision(d, assistant_id) ==
    LET revs == { d.revisions[i].revision : i \in { j \in DOMAIN d.revisions :
                      d.revisions[j].assistant_id = assistant_id } }
    IN  IF revs = {} THEN 0 ELSE CHOOSE r \in revs : \A q \in revs : q <= r

\* the result of a call: the tables after it, and whether it raised
Returned(d) == [db |-> d, raised |-> FALSE]
Raised(d) == [db |-> d, raised |-> TRUE]

\* a new revision row of the assistant, made its current revision (lines
\* 190-203, 436-446)
WithRevision(d, slug, revision, f) ==
    [d EXCEPT !.revisions = Append(@, RevisionRow(d.assistants[slug][1].id, revision,
                                                   f.config, f.prompt)),
              !.assistants[slug][1].current_revision_id = Len(d.revisions) + 1]

\* lines 137-166; the INSERT raises on a slug that exists (slug TEXT UNIQUE)
create_assistant(d, slug, f) ==
    IF d.assistants[slug] # <<>> THEN Raised(d)
    ELSE Returned(WithRevision(
             [d EXCEPT !.assistants[slug] =
                  <<AssistantRow(NextAssistantId(d), TRUE, FALSE, NULL, NULL)>>],
             slug, 1, f))

\* mutant: the new revision takes the number of the current one
update_assistant_same_number(d, slug, f) ==
    IF d.assistants[slug] = <<>> THEN Raised(d)
    ELSE Returned(WithRevision(d, slug, MaxRevision(d, d.assistants[slug][1].id), f))

\* lines 168-204
update_assistant(d, slug, f) ==
    IF d.assistants[slug] = <<>> THEN Raised(d)
    ELSE Returned(WithRevision(d, slug, MaxRevision(d, d.assistants[slug][1].id) + 1, f))

\* mutant: any revision that exists is accepted
rollback_any_assistant(d, slug, revision_id) ==
    IF d.assistants[slug] # <<>> /\ revision_id \in DOMAIN d.revisions
    THEN Returned([d EXCEPT !.assistants[slug][1].current_revision_id = revision_id])
    ELSE Raised(d)

\* lines 213-223
rollback(d, slug, revision_id) ==
    IF /\ d.assistants[slug] # <<>>
       /\ revision_id \in DOMAIN d.revisions
       /\ d.revisions[revision_id].assistant_id = d.assistants[slug][1].id
    THEN Returned([d EXCEPT !.assistants[slug][1].current_revision_id = revision_id])
    ELSE Raised(d)

\* lines 402-411: INSERT ... ON CONFLICT (slug) DO UPDATE SET name, enabled
Upserted(d, slug, f) ==
    IF d.assistants[slug] = <<>>
    THEN [d EXCEPT !.assistants[slug] =
              <<AssistantRow(NextAssistantId(d), f.config # "enabled_false",
                             FALSE, NULL, NULL)>>]
    ELSE [d EXCEPT !.assistants[slug][1].enabled = f.config # "enabled_false"]

\* the id of the revision with the greatest number (lines 418-425), 0 when
\* the assistant has none
LastRevision(d, assistant_id) ==
    LET ids == { i \in DOMAIN d.revisions :
                   /\ d.revisions[i].assistant_id = assistant_id
                   /\ d.revisions[i].revision = MaxRevision(d, assistant_id) }
    IN  IF ids = {} THEN 0 ELSE CHOOSE i \in ids : TRUE

\* lines 426-447, after the upsert: the latest revision when it equals the
\* files, else a new one
SeededRevision(d, slug, f, last_id) ==
    IF /\ last_id # 0
       /\ d.revisions[last_id].config = f.config
       /\ d.revisions[last_id].prompt = f.prompt
    THEN [d EXCEPT !.assistants[slug][1].current_revision_id = last_id]
    ELSE WithRevision(d, slug, MaxRevision(d, d.assistants[slug][1].id) + 1, f)

\* lines 385-447: one folder of the loop
SeedFolder(d, slug) ==
    IF d.files[slug] = <<>> THEN d
    ELSE SeededRevision(Upserted(d, slug, d.files[slug][1]), slug, d.files[slug][1],
                        LastRevision(d, IF d.assistants[slug] = <<>> THEN 0
                                        ELSE d.assistants[slug][1].id))

\* lines 371-449, bound as seed_from_filesystem at line 495
_db_seed_from_filesystem(d) == SeedFolder(SeedFolder(d, SlugOrder[1]), SlugOrder[2])

\* lines 452-465; secrets.token_urlsafe(18) is a token not issued before
_db_publish(d, slug) ==
    IF d.assistants[slug] = <<>> THEN Raised([d EXCEPT !.issued = @ + 1])
    ELSE Returned([d EXCEPT !.issued = @ + 1,
                            !.assistants[slug][1].is_public = TRUE,
                            !.assistants[slug][1].public_id = d.issued + 1])

\* lines 468-475
_db_unpublish(d, slug) ==
    IF d.assistants[slug] = <<>> THEN Returned(d)
    ELSE Returned([d EXCEPT !.assistants[slug][1].is_public = FALSE,
                            !.assistants[slug][1].public_id = NULL])

\* mutant: the assistant keeps its public id
_db_rotate_public_id_keeps(d, slug) ==
    IF d.assistants[slug] = <<>> THEN Raised([d EXCEPT !.issued = @ + 1])
    ELSE Returned([d EXCEPT !.issued = @ + 1,
                            !.assistants[slug][1].is_public = TRUE])

\* lines 478-491
_db_rotate_public_id(d, slug) ==
    IF d.assistants[slug] = <<>> THEN Raised([d EXCEPT !.issued = @ + 1])
    ELSE Returned([d EXCEPT !.issued = @ + 1,
                            !.assistants[slug][1].is_public = TRUE,
                            !.assistants[slug][1].public_id = d.issued + 1])

\* lines 93-114: the slugs of the rows the query selects
get_by_public_id(d, public_id) ==
    { s \in Slugs :
        /\ d.assistants[s] # <<>>
        /\ d.assistants[s][1].public_id = public_id
        /\ d.assistants[s][1].is_public
        /\ d.assistants[s][1].current_revision_id \in DOMAIN d.revisions }

\* app.py lines 312-329: the database first, then the records of the file
\* store, which have no public_id attribute (assistant_store.py lines 9-18)
_get_public_assistant(d, public_id) == get_by_public_id(d, public_id)

InitRevisions ==
    /\ inflight = [w \in Workers |-> Idle]
    /\ pending = [k \in Keys |-> <<>>]
    /\ ledger = <<>>
    /\ merchant = <<>>
    /\ nextId = 1
    /\ last = [k \in Keys |-> NoTurn]
    /\ who = "none"
    /\ turns = 0
    /\ db = "ok"
    /\ \E f \in Directories :
          fn_in = [ assistants |-> [s \in Slugs |-> <<>>], revisions |-> <<>>,
                    files |-> f, issued |-> 0 ]
    /\ fn_out = <<>>

\* the name of the call before this one
PrevOp == IF fn_out = <<>> THEN "none" ELSE fn_out[1].op

\* a call of the store; fn_out keeps the call
StoreCall(op, slug, arg, r) ==
    /\ turns < MaxTurns
    /\ turns' = turns + 1
    /\ who' = op
    /\ fn_in' = r.db
    /\ fn_out' = << [op |-> op, slug |-> slug, arg |-> arg, raised |-> r.raised,
                     prev |-> PrevOp] >>
    /\ UNCHANGED <<pending, ledger, merchant, nextId, last, db, inflight>>

CreateAssistant ==
    \E slug \in Slugs, f \in Posted :
        StoreCall("create_assistant", slug, <<f>>, create_assistant(fn_in, slug, f))

UpdateAssistant ==
    \E slug \in Slugs, f \in Posted :
        StoreCall("update_assistant", slug, <<f>>, update_assistant(fn_in, slug, f))

Rollback ==
    \E slug \in Slugs, revision_id \in 1..(Len(fn_in.revisions) + 1) :
        StoreCall("rollback", slug, <<revision_id>>, rollback(fn_in, slug, revision_id))

SeedFromFilesystem ==
    StoreCall("seed_from_filesystem", "none", <<>>,
              Returned(_db_seed_from_filesystem(fn_in)))

Publish == \E slug \in Slugs : StoreCall("publish", slug, <<>>, _db_publish(fn_in, slug))

Unpublish == \E slug \in Slugs : StoreCall("unpublish", slug, <<>>, _db_unpublish(fn_in, slug))

RotatePublicId ==
    \E slug \in Slugs :
        StoreCall("rotate_public_id", slug, <<>>, _db_rotate_public_id(fn_in, slug))

\* the files of a folder are edited between two calls
EditFolder ==
    \E slug \in Slugs, f \in Folders \ {<<>>} :
        /\ fn_in.files[slug] # f
        /\ StoreCall("edit_folder", slug, f, Returned([fn_in EXCEPT !.files[slug] = f]))

NextRevisions ==
    \/ CreateAssistant
    \/ UpdateAssistant
    \/ Rollback
    \/ SeedFromFilesystem
    \/ Publish
    \/ Unpublish
    \/ RotatePublicId
    \/ EditFolder

SpecRevisions == InitRevisions /\ [][NextRevisions]_vars

(* --------------------- a ledger insert that raises --------------------- *)
\* mutant: the pending row of the key is cleared before the insert is tried
InsertRaises_after_clear(store, led, id, k) ==
    Result(finance_pending_clear(store, k), led, id, Reply("error", "none", <<>>), <<>>)

\* lines 1588-1602 and 1615-1617: on the commit path nothing is written
\* before finance_insert; when it raises (connection lost, row rejected by
\* the table) the except clause answers 500 and finance_pending_clear is
\* not reached
InsertRaises(store, led, id, k) ==
    Result(store, led, id, Reply("error", "none", <<>>), <<>>)

\* a chat turn that reaches finance_insert, which raises; fn_out counts them
public_chat_insert_raises(k, msg) ==
    /\ turns < MaxTurns
    /\ ChatResult(pending, ledger, merchant, nextId, k, msg).ins # <<>>
    /\ \E r \in {InsertRaises(pending, ledger, nextId, k)} :
        /\ turns' = turns + 1
        /\ who' = k
        /\ fn_out' = Append(fn_out, "finance_insert")
        /\ pending' = r.pending
        /\ ledger' = r.ledger
        /\ nextId' = r.nextId
        /\ last' = [last EXCEPT ![k] =
                      [msg |-> msg, reply |-> r.reply, before |-> pending[k],
                       ins |-> r.ins,
                       prev |-> [kind |-> last[k].reply.kind,
                                 had |-> last[k].before # <<>>]]]
        /\ UNCHANGED <<merchant, fn_in, db, inflight>>

NextInsertRaises ==
    \/ \E k \in Keys, msg \in EditMsgs : public_chat(k, msg)
    \/ \E k \in Keys, msg \in EditMsgs : public_chat_insert_raises(k, msg)

SpecInsertRaises == Init /\ [][NextInsertRaises]_vars

(* ------------------------------ claims --------------------------------- *)
Complete(e) ==
    /\ e.amount \in Nat
    /\ e.property_slug \notin {None, ""}
    /\ e.entry_type \notin {None, ""}

Lacks(p) ==
    \/ p.amount = <<>>
    \/ p.property_slug \in {None, ""}
    \/ p.entry_type \in {None, ""}

\* C1: every entry the chat handler has inserted into the ledger has an
\* amount, a property_slug and an entry_type, and a turn that ends with a
\* follow-up question (a required slot still missing) inserts nothing.
C1_NoPartialCommit ==
    /\ \A i \in 1..Len(ledger) : Complete(ledger[i])
    /\ \A k \in Keys :
        /\ last[k].ins # <<>> => Complete(last[k].ins[1])
        /\ last[k].reply.kind = "ask" =>
              /\ last[k].ins = <<>>
              /\ pending[k] # <<>>
              /\ Lacks(pending[k][1])

\* C1 witness: an entry was committed by a turn that completed a stored
\* pending entry
C1_Witness ==
    \E k \in Keys :
        /\ last[k].ins # <<>>
        /\ last[k].before # <<>>
        /\ last[k].prev.kind = "ask"
        /\ Len(ledger) >= 1

Slots(missing) == {missing[i] : i \in 1..Len(missing)}

C3_TwoTurnCommit ==
    [][\A k \in Keys :
        LET f1 == parse_finance_fields(last[k].msg)
            f2 == parse_finance_fields(last'[k].msg)
        IN  ( /\ Turn(k)
              /\ EntryPath(last[k].msg) /\ last[k].before = <<>>
              /\ f1.amount # <<>> /\ f1.category # "uncategorized"
              /\ f1.property_slug = None /\ f1.entry_type = None
              /\ EntryPath(last'[k].msg)
              /\ f2.property_slug # None /\ f2.amount = <<>> /\ f2.entry_type = None
              /\ f2.category = "uncategorized" )
            => /\ last'[k].ins # <<>>
               /\ ledger' = Append(ledger, last'[k].ins[1])
               /\ last'[k].ins[1].amount = f1.amount[1]
               /\ last'[k].ins[1].category = f1.category
               /\ last'[k].ins[1].property_slug = f2.property_slug
    ]_vars

\* C4: with no pending entry for the key, a message is an entry start
\* (pending entry created or entry committed) exactly when it yields an
\* amount together with a property, a type, an action verb or a specific
\* category; any other message gets the clarification and changes nothing.
\* (Every action verb of the word lists yields a type.)
C4_EntryStart ==
    [][\A k \in Keys :
        LET f == parse_finance_fields(last'[k].msg)
            signal == /\ f.amount # <<>>
                      /\ \/ f.property_slug # None
                         \/ f.entry_type # None
                         \/ f.category # "uncategorized"
        IN  (Turn(k) /\ pending[k] = <<>> /\ EntryPath(last'[k].msg))
            => IF signal
               THEN pending'[k] # <<>> \/ Len(ledger') = Len(ledger) + 1
               ELSE /\ last'[k].reply.kind = "clarify"
                    /\ pending' = pending
                    /\ ledger' = ledger
    ]_vars

\* C5: with no pending entry for the key, an entry message that yields an
\* amount and a type but no property (parse_finance_fields returns them)
\* is not rejected: a pending entry with that amount and type is stored for
\* the key and the reply asks for the property.
C5_AskProperty ==
    [][\A k \in Keys :
        LET f == parse_finance_fields(last'[k].msg)
        IN  ( /\ Turn(k) /\ pending[k] = <<>> /\ EntryPath(last'[k].msg)
              /\ f.entry_date # ValueError
              /\ f.amount # <<>> /\ f.entry_type # None /\ f.property_slug = None )
            => /\ pending'[k] # <<>>
               /\ pending'[k][1].amount = f.amount
               /\ pending'[k][1].entry_type = f.entry_type
               /\ pending'[k][1].property_slug = None
               /\ last'[k].reply.kind = "ask"
               /\ last'[k].reply.ask = "property"
               /\ ledger' = ledger
    ]_vars

\* C5 witness: "Πλήρωσα 35€" sent with no pending entry was answered by the
\* question for the property and is stored
C5_Witness ==
    \E k \in Keys :
        /\ last[k].msg = <<"plirosa", "e35">>
        /\ last[k].before = <<>>
        /\ last[k].reply = Reply("ask", "property", <<>>)
        /\ pending[k] # <<>>
        /\ pending[k][1].amount = <<3500>>
        /\ pending[k][1].entry_type = "expense"

\* C6: a single entry message that yields type, property and amount commits
\* exactly one ledger entry in that turn, with the values the message
\* yields, returns the confirmation and leaves no pending entry for the key.
C6_SingleTurnCommit ==
    [][\A k \in Keys :
        LET f == parse_finance_fields(last'[k].msg)
        IN  ( /\ Turn(k) /\ EntryPath(last'[k].msg)
              /\ f.amount # <<>> /\ f.entry_type # None /\ f.property_slug # None )
            => /\ last'[k].ins # <<>>
               /\ ledger' = Append(ledger, last'[k].ins[1])
               /\ last'[k].ins[1].amount = f.amount[1]
               /\ last'[k].ins[1].entry_type = f.entry_type
               /\ last'[k].ins[1].property_slug = f.property_slug
               /\ last'[k].ins[1].entry_date = f.entry_date
               /\ last'[k].reply.kind = "confirm"
               /\ pending'[k] = <<>>
    ]_vars

\* C6 witness: "Πλήρωσα νερό Βουρβουρού 20€ 05/01/2026" was committed in
\* one turn as expense, vourvourou, 20.00, 2026-01-05, utilities
C6_Witness ==
    \E k \in Keys :
        /\ last[k].msg = <<"plirosa", "nero", "vourvourou", "e20", "d050126">>
        /\ last[k].reply.kind = "confirm"
        /\ last[k].ins # <<>>
        /\ last[k].ins[1].entry_type = "expense"
        /\ last[k].ins[1].property_slug = "vourvourou"
        /\ last[k].ins[1].amount = 2000
        /\ last[k].ins[1].entry_date = 20260105
        /\ last[k].ins[1].category = "utilities"
        /\ pending[k] = <<>>
        /\ ledger[Len(ledger)] = last[k].ins[1]

\* "Δώσε μου έξοδα από 6/1/2026 έως 8/1/2026"
GiveMeExpenses == <<"dose", "mou", "exoda", "apo", "d060126", "eos", "d080126">>

\* C7: the request "Δώσε μου έξοδα από 6/1/2026 έως 8/1/2026" is handled
\* as a report with entry_type expense, date_from 2026-01-06 and date_to
\* 2026-01-08, and handling it neither creates nor changes a pending entry.
C7_ReportWithoutPrefix ==
    [][\A k \in Keys :
        (Turn(k) /\ last'[k].msg = GiveMeExpenses)
        => /\ last'[k].reply.kind = "report"
           /\ last'[k].reply.report # <<>>
           /\ last'[k].reply.report[1].req.entry_type = "expense"
           /\ last'[k].reply.report[1].req.date_from = 20260106
           /\ last'[k].reply.report[1].req.date_to = 20260108
           /\ pending' = pending
    ]_vars

\* C8: a message recognized as a report query is answered by the report
\* engine even when it also yields an amount, a type and a property:
\* handling it inserts no ledger entry and writes or clears no pending entry.
C8_ReportPrecedence ==
    [][\A k \in Keys :
        (Turn(k) /\ _parse_report_request(last'[k].msg) # <<>>)
        => /\ last'[k].reply.kind = "report"
           /\ last'[k].reply.report # <<>>
           /\ last'[k].ins = <<>>
           /\ ledger' = ledger
           /\ nextId' = nextId
           /\ pending' = pending
    ]_vars

\* C8 witness: a report message that yields type, property and amount was
\* answered as a report while a pending entry was stored for the key
C8_Witness ==
    \E k \in Keys :
        /\ last[k].msg = <<"report", "plirosa", "nero", "vourvourou", "e20">>
        /\ looks_like_new_entry(parse_finance_fields(last[k].msg))
        /\ missing_fields(parse_finance_fields(last[k].msg)) = <<>>
        /\ last[k].reply.kind = "report"
        /\ last[k].before # <<>>
        /\ pending[k] = last[k].before
        /\ ledger = <<>>

\* C9: a cancel keyword sent while a pending entry exists removes it; the
\* next message of the key that is not an entry start is not merged into
\* the old pending entry and, when it is entry text, gets the "not
\* recognized as an entry" clarification; neither message writes the ledger.
C9_CancelClears ==
    [][\A k \in Keys :
        /\ (Turn(k) /\ last'[k].msg \in CancelMsgs /\ pending[k] # <<>>)
           => /\ pending'[k] = <<>>
              /\ last'[k].reply.kind = "cancelled"
              /\ ledger' = ledger
        /\ ( /\ Turn(k)
             /\ last[k].msg \in CancelMsgs /\ last[k].before # <<>>
             /\ ~looks_like_new_entry(parse_finance_fields(last'[k].msg)) )
           => /\ pending'[k] = <<>>
              /\ ledger' = ledger
              /\ EntryPath(last'[k].msg) => last'[k].reply.kind = "clarify"
    ]_vars

\* C9 witness: a pending entry was cancelled and the following ambiguous
\* message got the clarification
C9_Witness ==
    \E k \in Keys :
        /\ last[k].prev.kind = "cancelled"
        /\ last[k].prev.had
        /\ last[k].msg = <<"vourvourou">>
        /\ last[k].reply.kind = "clarify"
        /\ pending[k] = <<>>
        /\ ledger = <<>>

\* the pending entry or committed entry a turn of key k produced
Produced(k) ==
    IF last'[k].ins # <<>>
    THEN [last'[k].ins[1] EXCEPT !.amount = <<@>>]
    ELSE pending'[k][1]

\* C10: when a pending entry exists and an entry message yields a type
\* (action verb) and an amount (parse_finance_fields returns them), the
\* pending entry is replaced wholesale:
\* every field of the new pending entry, or of the entry committed on that
\* turn, comes from the new message alone.
C10_StrongNewEntryReplaces ==
    [][\A k \in Keys :
        LET f == parse_finance_fields(last'[k].msg)
        IN  ( /\ Turn(k) /\ pending[k] # <<>> /\ EntryPath(last'[k].msg)
              /\ f.entry_date # ValueError
              /\ f.entry_type # None /\ f.amount # <<>> )
            => /\ last'[k].ins # <<>> \/ pending'[k] # <<>>
               /\ Produced(k).entry_type = f.entry_type
               /\ Produced(k).property_slug = f.property_slug
               /\ Produced(k).amount = f.amount
               /\ Produced(k).entry_date = f.entry_date
               /\ Produced(k).label = f.label
               /\ Produced(k).raw_text = <<last'[k].msg>>
               /\ \/ Produced(k).category = f.category
                  \/ /\ f.category = "uncategorized"
                     /\ Produced(k).category =
                           merchant_map_guess_category(merchant, <<last'[k].msg>>)
    ]_vars

\* C10 witness: a pending entry for thessaloniki with a date was replaced
\* by "Πλήρωσα 35€"; the new pending entry has no property
C10_Witness ==
    \E k \in Keys :
        /\ last[k].before # <<>>
        /\ last[k].before[1].property_slug = "thessaloniki"
        /\ last[k].before[1].amount = <<6000>>
        /\ last[k].msg = <<"plirosa", "e35">>
        /\ pending[k] # <<>>
        /\ pending[k][1].property_slug = None
        /\ pending[k][1].amount = <<3500>>
        /\ pending[k][1].raw_text = << <<"plirosa", "e35">> >>

\* the message is a continuation for the spec: it reaches the entry
\* classification and does not carry both an action verb and an amount
Continuation(msg) ==
    /\ EntryPath(msg)
    /\ ~( parse_finance_fields(msg).entry_type # None
          /\ parse_finance_fields(msg).amount # <<>> )

\* C11: when a pending entry exists and the message is not a greeting, a
\* cancel, a report query or a strong new entry (action verb plus amount),
\* the turn leaves every slot that was already set as it was: the amount,
\* the property, the type and a date that an earlier message supplied keep
\* their value in the pending entry or in the entry committed on that turn;
\* only the category may be replaced.
C11_MergeFillsEmptySlotsOnly ==
    [][\A k \in Keys :
        ( Turn(k) /\ pending[k] # <<>> /\ Continuation(last'[k].msg) )
        => /\ last'[k].ins # <<>> \/ pending'[k] # <<>>
           /\ pending[k][1].amount # <<>>
              => Produced(k).amount = pending[k][1].amount
           /\ pending[k][1].property_slug # None
              => Produced(k).property_slug = pending[k][1].property_slug
           /\ pending[k][1].entry_type # None
              => Produced(k).entry_type = pending[k][1].entry_type
           /\ pending[k][1].entry_date # Today
              => Produced(k).entry_date = pending[k][1].entry_date
    ]_vars

\* the categories the category rules of _detect_category can produce
RuleCategories == { CatRules[i].cat : i \in 1..Len(CatRules) }

\* the rule category a turn of key k has to keep: the one detected in the
\* message, else the one a stored pending entry carries into a merge
RuleCategory(k) ==
    LET f == parse_finance_fields(last'[k].msg)
    IN  IF f.category \in RuleCategories THEN f.category
        ELSE IF /\ pending[k] # <<>>
                /\ ~looks_like_new_entry(f)
                /\ pending[k][1].category \in RuleCategories
        THEN pending[k][1].category
        ELSE None

\* C12: a category produced by the category rules, on this turn or on an
\* earlier one, is the category of the pending entry or of the committed
\* entry after the turn, whatever merchant memory holds for the words of
\* the text: merchant memory is consulted only while the category is empty
\* or "uncategorized".
C12_RuleCategoryBeatsMerchantMemory ==
    [][\A k \in Keys :
        ( /\ Turn(k) /\ EntryPath(last'[k].msg)
          /\ last'[k].ins # <<>> \/ pending'[k] # <<>>
          /\ last'[k].reply.kind \in {"ask", "confirm"}
          /\ RuleCategory(k) # None )
        => Produced(k).category = RuleCategory(k)
    ]_vars

\* C12 witness: the pending entry got home_maintenance from the rule for
\* "kipo" on an earlier turn, merchant memory maps both "kipo" and the word
\* of the latest message to other categories, and the category stayed
C12_Witness ==
    \E k \in Keys :
        /\ last[k].msg = <<"kati">>
        /\ last[k].reply.kind = "ask"
        /\ last[k].before # <<>>
        /\ last[k].before[1].category = "home_maintenance"
        /\ pending[k] # <<>>
        /\ pending[k][1].category = "home_maintenance"
        /\ merchant_map_guess_category(merchant, pending[k][1].raw_text) = "misc"
        /\ merchant_map_guess_category(merchant, << <<"e60", "kipo">> >>) = "garden"

\* C13: a turn that returns the commit confirmation has added exactly one
\* entry to the ledger and leaves no pending entry for its key; the next
\* message of that key that is not an entry start adds nothing to the
\* ledger, changes no ledger entry and is not merged into a pending entry.
C13_CommitClearsPending ==
    [][\A k \in Keys :
        /\ (Turn(k) /\ last'[k].reply.kind = "confirm")
           => /\ Len(ledger') = Len(ledger) + 1
              /\ SubSeq(ledger', 1, Len(ledger)) = ledger
              /\ last'[k].ins = <<ledger'[Len(ledger')]>>
              /\ pending'[k] = <<>>
        /\ ( /\ Turn(k) /\ last[k].reply.kind = "confirm"
             /\ ~looks_like_new_entry(parse_finance_fields(last'[k].msg)) )
           => /\ pending[k] = <<>>
              /\ pending'[k] = <<>>
              /\ ledger' = ledger
              /\ EntryPath(last'[k].msg) => last'[k].reply.kind = "clarify"
    ]_vars

\* C13 witness: an entry was committed for the key and the property name
\* sent next got the clarification; the ledger still holds the one entry
C13_Witness ==
    \E k \in Keys :
        /\ last[k].prev.kind = "confirm"
        /\ last[k].msg = <<"vourvourou">>
        /\ last[k].reply.kind = "clarify"
        /\ pending[k] = <<>>
        /\ Len(ledger) = 1
        /\ ledger[1].property_slug = "vourvourou"
        /\ ledger[1].raw_text = << <<"plirosa", "nero", "vourvourou", "e20", "d050126">> >>

\* C14: a greeting changes neither the pending store nor the ledger, with
\* or without a pending entry for the key, and the message that follows a
\* greeting is handled against the pending entry that existed before it:
\* when it fills the last missing slot, the entry is committed with the
\* stored slots.
C14_GreetingChangesNothing ==
    [][\A k \in Keys :
        /\ (Turn(k) /\ _is_greeting(last'[k].msg))
           => /\ pending' = pending
              /\ ledger' = ledger
              /\ nextId' = nextId
              /\ last'[k].reply.kind = "greeting"
        /\ ( /\ Turn(k) /\ _is_greeting(last[k].msg) /\ last[k].before # <<>>
             /\ EntryPath(last'[k].msg)
             /\ ~looks_like_new_entry(parse_finance_fields(last'[k].msg)) )
           => LET p == WithMerchantGuess(
                         MergePending(last[k].before[1],
                                      parse_finance_fields(last'[k].msg),
                                      last'[k].msg), merchant)
              IN  IF missing_fields(p) = <<>>
                  THEN /\ last'[k].reply.kind = "confirm"
                       /\ last'[k].ins = <<EntryOf(p, nextId, last'[k].msg)>>
                       /\ ledger' = Append(ledger, last'[k].ins[1])
                  ELSE /\ last'[k].reply.kind = "ask"
                       /\ pending'[k] = <<p>>
    ]_vars

\* C14 witness: "Πλήρωσα 35€" left a pending entry without property, the
\* greeting came next, and the property name sent after it committed the
\* entry with the stored amount and type
C14_Witness ==
    \E k \in Keys :
        /\ last[k].prev.kind = "greeting"
        /\ last[k].prev.had
        /\ last[k].before # <<>>
        /\ last[k].before[1].amount = <<3500>>
        /\ last[k].msg = <<"vourvourou">>
        /\ last[k].reply.kind = "confirm"
        /\ Len(ledger) = 1
        /\ ledger[1].amount = 3500
        /\ ledger[1].entry_type = "expense"
        /\ ledger[1].property_slug = "vourvourou"
        /\ pending[k] = <<>>

\* the pending store with the rows of all keys but k removed
OnlyKey(store, k) == [j \in Keys |-> IF j = k THEN store[j] ELSE <<>>]

\* C17: a turn of key k leaves the pending entry of every other key as it
\* was, and its own outcome (reply, pending entry of k, ledger) is the one
\* it would have with no other key in the pending store: the rows of other
\* keys are neither read, changed nor cleared, whatever turns of other keys
\* came before.
C17_OtherKeysUntouched ==
    [][\A k \in Keys :
        Turn(k)
        => /\ \A j \in Keys \ {k} : pending'[j] = pending[j]
           /\ LET alone == ChatResult(OnlyKey(pending, k), ledger, merchant,
                                      nextId, k, last'[k].msg)
              IN  /\ last'[k].reply = alone.reply
                  /\ pending'[k] = alone.pending[k]
                  /\ ledger' = alone.ledger
    ]_vars

\* C17 witness: both keys had a pending entry, c2 cancelled its own, and
\* the pending entry of c1 is still the one its message left
C17_Witness ==
    /\ who = "c2"
    /\ last["c2"].reply.kind = "cancelled"
    /\ last["c2"].before # <<>>
    /\ pending["c2"] = <<>>
    /\ last["c1"].reply.kind = "ask"
    /\ pending["c1"] # <<>>
    /\ pending["c1"][1].raw_text = <<last["c1"].msg>>

Unnumbered(led) == { [led[i] EXCEPT !.id = 0] : i \in 1..Len(led) }

\* message m1 handled to its end, then message m2, both for key k, from
\* the pending store the requests started from
OneAfterTheOther(k, m1, m2) ==
    LET a == ChatResult(fn_in, <<>>, merchant, 1, k, m1)
        b == ChatResult(a.pending, a.ledger, merchant, a.nextId, k, m2)
    IN  [pending |-> b.pending, ledger |-> Unnumbered(b.ledger),
         first |-> a.reply.kind, second |-> b.reply.kind]

\* C15: two requests for the same key that were handled at the same time
\* and both answered leave the pending store and the ledger, and got the
\* replies, of handling one of them to its end and then the other, in one
\* of the two orders.
C15_SerializedPerKey ==
    \A w1, w2 \in Workers :
        ( /\ w1 # w2
          /\ inflight[w1].pc = "done" /\ inflight[w2].pc = "done"
          /\ inflight[w1].k = inflight[w2].k
          /\ inflight[w1].reply # "error" /\ inflight[w2].reply # "error" )
        => \/ [pending |-> pending, ledger |-> Unnumbered(ledger),
               first |-> inflight[w1].reply, second |-> inflight[w2].reply]
              = OneAfterTheOther(inflight[w1].k, inflight[w1].msg, inflight[w2].msg)
           \/ [pending |-> pending, ledger |-> Unnumbered(ledger),
               first |-> inflight[w2].reply, second |-> inflight[w1].reply]
              = OneAfterTheOther(inflight[w1].k, inflight[w2].msg, inflight[w1].msg)

\* the workers that committed the pending entry the requests started from
\* for key k (their message alone is no entry)
Committers(k) ==
    { w \in Workers :
        /\ inflight[w].k = k
        /\ inflight[w].entry # <<>>
        /\ inflight[w].read # <<>>
        /\ inflight[w].read = fn_in[k]
        /\ ~looks_like_new_entry(parse_finance_fields(inflight[w].msg)) }

\* C16: a stored pending entry is committed to the ledger at most once:
\* of two requests for one key that each supply its last missing slot, at
\* most one inserts a ledger entry, whether they run at the same time or
\* the second arrives after the first inserted and failed to clear.
C16_CommitAtMostOnce ==
    \A k \in Keys : Cardinality(Committers(k)) <= 1

\* C19: an entry message whose date token is no calendar date is handled
\* as the same message without the token: the reply is the question, the
\* confirmation or the clarification that message gets, never an error,
\* and the entry_date of the pending or committed entry it produces is a
\* date, today when the message starts the entry.
C19_InvalidDateFallsBack ==
    [][\A k \in Keys :
        ( /\ Turn(k) /\ EntryPath(last'[k].msg)
          /\ \E i \in 1..Len(last'[k].msg) :
                /\ last'[k].msg[i] \in DateWords
                /\ DateOfToken(last'[k].msg[i]) = <<>> )
        => /\ last'[k].reply.kind # "error"
           /\ last'[k].reply.kind
                = ChatResult(pending, ledger, merchant, nextId, k,
                             WithoutDates(last'[k].msg)).reply.kind
           /\ last'[k].reply.kind \in {"ask", "confirm"}
              => /\ Produced(k).entry_date # ValueError
                 /\ looks_like_new_entry(parse_finance_fields(last'[k].msg))
                    => Produced(k).entry_date = Today
    ]_vars

\* C20: every report request the parser returns has date_from <= date_to:
\* its dates are the two dates found in the text in ascending order, so a
\* range given in reverse order comes out swapped.
C20_ReportDatesOrdered ==
    (fn_out # <<>> /\ fn_out[1] # <<>>)
    => LET req == fn_out[1][1]
           found == MonthDates(fn_in)
       IN  /\ req.date_from <= req.date_to
           /\ req.date_from = IF found[1] <= found[2] THEN found[1] ELSE found[2]
           /\ req.date_to = IF found[1] <= found[2] THEN found[2] ELSE found[1]

\* the text has a month word after its first word
HasMonthWord(msg) == \E i \in 2..Len(msg) : msg[i] \in MonthTokens

\* the dates of the explicit range of a report text ("range X Y",
\* "από X έως Y" or the first two date words), <<>> when it has none
ExplicitRange(msg) ==
    IF ParsedPair(PairAfter(msg, "range", "")) # <<>>
    THEN ParsedPair(PairAfter(msg, "range", ""))
    ELSE IF ParsedPair(PairAfter(msg, "apo", "eos")) # <<>>
    THEN ParsedPair(PairAfter(msg, "apo", "eos"))
    ELSE IF Len(ReportDateTokens(msg)) >= 2
    THEN ParsedPair(<<ReportDateTokens(msg)[1], ReportDateTokens(msg)[2]>>)
    ELSE <<>>

\* C21: a report text with a month word and an explicit date range is
\* resolved to the dates of the explicit range, not to the first and last
\* day of the month.
C21_ExplicitRangeBeatsMonth ==
    ( /\ fn_out # <<>> /\ fn_out[1] # <<>>
      /\ HasMonthWord(fn_in)
      /\ ExplicitRange(fn_in) # <<>> )
    => /\ fn_out[1][1].date_from = ExplicitRange(fn_in)[1]
       /\ fn_out[1][1].date_to = ExplicitRange(fn_in)[2]

\* the explicit range of a report text when both its dates are days of the
\* calendar, <<>> otherwise
RealRange(msg) ==
    IF ExplicitRange(msg) = <<>> THEN <<>>
    ELSE IF IsCalendarDate(ExplicitRange(msg)[1]) /\ IsCalendarDate(ExplicitRange(msg)[2])
    THEN ExplicitRange(msg)
    ELSE <<>>

\* C22: for every text that starts with a report prefix the parser returns
\* a request whose date_from and date_to are both days of the calendar;
\* when the text has no month word and no range of two real dates, they are
\* the first and last day of the current month.
C22_ReportDatesResolved ==
    ( fn_out # <<>> /\ fn_in # <<>> /\ fn_in[1] \in ReportPrefixTokens )
    => /\ fn_out[1] # <<>>
       /\ IsCalendarDate(fn_out[1][1].date_from)
       /\ IsCalendarDate(fn_out[1][1].date_to)
       /\ (~HasMonthWord(fn_in) /\ RealRange(fn_in) = <<>>)
          => /\ fn_out[1][1].date_from = (Today \div 100) * 100 + 1
             /\ fn_out[1][1].date_to
                  = (Today \div 100) * 100
                    + MonthLast(Today \div 10000, (Today \div 100) % 100)

RECURSIVE SumOf(_, _)
SumOf(led, S) ==
    IF S = {} THEN 0
    ELSE LET i == CHOOSE i \in S : TRUE
         IN  led[i].amount + SumOf(led, S \ {i})

\* the ledger positions a report request selects
Selected(led, req) ==
    { i \in DOMAIN led :
        /\ (req.entry_type # None => led[i].entry_type = req.entry_type)
        /\ (req.property_slug # None => led[i].property_slug = req.property_slug)
        /\ req.date_from <= led[i].entry_date
        /\ led[i].entry_date <= req.date_to }

\* the category a ledger entry is reported under
ReportedUnder(e) == IF e.category = "" THEN "uncategorized" ELSE e.category

InCategory(led, S, c) == { i \in S : ReportedUnder(led[i]) = c }

C24_ExportLinkMatchesReport ==
    ( fn_out # <<>> /\ fn_out[1].rep # <<>> )
    => LET rep == fn_out[1].rep[1]
       IN  /\ rep.download_url # <<>>
           /\ rep.download_url[1].type = rep.req.entry_type
           /\ rep.download_url[1].property = rep.req.property_slug
           /\ rep.download_url[1].from = rep.req.date_from
           /\ rep.download_url[1].to = rep.req.date_to
           /\ fn_out[1].csv # <<>>
              => { fn_out[1].csv[1][i].id : i \in DOMAIN fn_out[1].csv[1] }
                   = { ledger[i].id : i \in Selected(ledger, rep.req) }

\* the filters leave the entry in: its property or none, its type or none, a
\* date range that contains its entry_date
FiltersFit(f, e) ==
    /\ f.property_slug \in {None, e.property_slug}
    /\ f.entry_type \in {None, e.entry_type}
    /\ (f.dates[1] # <<>> => f.dates[1][1] <= e.entry_date)
    /\ (f.dates[2] # <<>> => e.entry_date <= f.dates[2][1])

C26_ChatKeepsLedgerEntries ==
    [][ /\ (who' \in Keys /\ turns' # turns)
           => /\ Len(ledger') >= Len(ledger)
              /\ SubSeq(ledger', 1, Len(ledger)) = ledger
        /\ (\E i \in DOMAIN ledger : ledger[i] \notin Range(ledger'))
           => who' \in {"undo_last", "delete", "admin_reset_finance"} ]_vars

\* a second entry committed by the chat on top of one committed before, and
\* then a cancel that leaves both in the ledger
C26_Witness ==
    /\ Len(ledger) = 2
    /\ turns = 3
    /\ who \in Keys
    /\ last[who].reply.kind = "cancelled"

\* the categories merchant memory holds
MerchantCategories == { merchant[i].category : i \in DOMAIN merchant }

\* C27: every entry committed by the chat handler has property_slug in
\* {thessaloniki, vourvourou}, entry_type in {expense, income}, currency
\* "EUR", a non-negative amount of whole cents, and a category that is a rule
\* category, a merchant-memory category or "uncategorized".
C27_CommittedEntryDomains ==
    \A i \in DOMAIN ledger :
        /\ ledger[i].property_slug \in {"thessaloniki", "vourvourou"}
        /\ ledger[i].entry_type \in {"expense", "income"}
        /\ ledger[i].currency = "EUR"
        /\ ledger[i].amount \in Nat
        /\ ledger[i].category \in RuleCategories \cup MerchantCategories
                                   \cup {"uncategorized"}

\* three committed kinds of category: one from a rule, one from merchant
\* memory, one defaulted
C27_Witness ==
    /\ \E i \in DOMAIN ledger : ledger[i].category \in MerchantCategories
    /\ who \in Keys
    /\ last[who].reply.kind = "confirm"
    /\ last[who].ins # <<>>

\* C29: the text normalizer is idempotent for every input: normalizing a
\* normalized text gives the same text, for the _norm of line 423 and for
\* the _norm of line 1254.
C29_NormIdempotent ==
    fn_out # <<>>
    => /\ _norm(fn_out[1].first) = fn_out[1].first
       /\ _norm_report(fn_out[1].second) = fn_out[1].second

\* the calls that set a spelling of the token "a"
SetsOfToken(calls) ==
    { i \in DOMAIN calls : _norm(strip(calls[i].token)) = <<"a">> }

\* C28: merchant memory holds at most one category per normalized token, and
\* set is last-write-wins: after any sequence of set calls, a guess on a text
\* that contains the token returns the category of the most recent set of
\* any spelling that normalizes to that token.
C28_MerchantLastWriteWins ==
    /\ \A i, j \in DOMAIN merchant :
         _norm(merchant[i].token) = _norm(merchant[j].token) => i = j
    /\ (fn_out # <<>> /\ SetsOfToken(fn_in) # {})
       => fn_out[1]
            = fn_in[CHOOSE i \in SetsOfToken(fn_in) :
                      \A j \in SetsOfToken(fn_in) : j <= i].category

\* the caller may use the finance clerk: the public id resolves to an enabled
\* finance_clerk assistant and, if it requires a key, the request has it
MayUse(c) ==
    /\ c.assistant = "finance_clerk"
    /\ c.enabled
    /\ c.requires_key => c.key_ok

\* C30: a chat request without the correct key of an assistant that requires
\* one, or to a public id that resolves to no enabled finance_clerk
\* assistant, reads no ledger data (its reply is no report), inserts no
\* ledger entry and changes no pending state.
C30_NoKeyNoEffect ==
    [][ (turns' # turns /\ ~MayUse(fn_in'))
        => /\ ledger' = ledger
           /\ pending' = pending
           /\ last'[who'].reply.kind # "report"
           /\ last'[who'].reply.report = <<>> ]_vars

\* the message yields the one required slot the pending entry lacks
SuppliesMissing(p, f) ==
    \/ (p.property_slug \in {None, ""} /\ f.property_slug \notin {None, ""})
    \/ (p.entry_type \in {None, ""} /\ f.entry_type \notin {None, ""})

\* C31: in sequential operation every stored pending entry has an amount and
\* exactly one of property_slug and entry_type; no turn asks for the amount;
\* and a further entry message that supplies the missing slot of a stored
\* pending entry completes it: the turn commits.
C31_PendingLacksOneSlot ==
    [][\A k \in Keys :
        /\ pending'[k] # <<>>
           => /\ pending'[k][1].amount # <<>>
              /\ (pending'[k][1].property_slug \in {None, ""})
                   # (pending'[k][1].entry_type \in {None, ""})
        /\ Turn(k) => last'[k].reply.ask # "amount"
        /\ ( /\ Turn(k)
             /\ pending[k] # <<>>
             /\ EntryPath(last'[k].msg)
             /\ SuppliesMissing(pending[k][1], parse_finance_fields(last'[k].msg)) )
           => last'[k].reply.kind = "confirm"
    ]_vars

\* C32: when the ledger insert fails on a turn that completed a pending
\* entry, the request returns an error, no entry is added to the ledger, and
\* the stored pending entry of the key is what it was before the turn.
C32_FailedInsertKeepsPending ==
    [][\A k \in Keys :
        (Turn(k) /\ Len(fn_out') > Len(fn_out))
        => /\ last'[k].reply.kind = "error"
           /\ ledger' = ledger
           /\ pending'[k] = pending[k]
    ]_vars

\* a failed insert on the turn that supplied the missing slot of a stored
\* pending entry, which is still stored
C32_Witness ==
    /\ fn_out # <<>>
    /\ who \in Keys
    /\ last[who].reply.kind = "error"
    /\ last[who].before # <<>>
    /\ pending[who] = last[who].before
    /\ ledger = <<>>

\* the entries of led that an undo_last for the property may remove
OfProperty(led, property_slug) ==
    { i \in DOMAIN led :
        PropertyArg(property_slug) # None => led[i].property_slug = property_slug }

Without(led, i) == SubSeq(led, 1, i - 1) \o SubSeq(led, i + 1, Len(led))

\* C33: an accepted undo_last with confirm removes exactly the most recently
\* created entry (of the property when one is given) and keeps the others
\* as they were, or nothing when no entry matches; undo_last without
\* confirm and delete with an id no entry has leave the ledger as it was and
\* answer an error
C33_UndoAndDelete ==
    fn_out # <<>> =>
        /\ ( fn_in.op = "undo_last" /\ fn_in.confirm
             /\ _finance_auth_and_get_clerk(fn_in.caller) = 200 /\ db = "ok" ) =>
               IF OfProperty(fn_in.before, fn_in.arg[1]) = {}
               THEN ledger = fn_in.before
               ELSE \E i \in OfProperty(fn_in.before, fn_in.arg[1]) :
                      /\ \A j \in OfProperty(fn_in.before, fn_in.arg[1]) : j <= i
                      /\ ledger = Without(fn_in.before, i)
        /\ ( fn_in.op = "undo_last" /\ ~fn_in.confirm ) =>
               ledger = fn_in.before /\ fn_out[1].status >= 400
        /\ ( fn_in.op = "delete" /\ fn_in.arg # <<>>
             /\ \A i \in DOMAIN fn_in.before : fn_in.before[i].id # fn_in.arg[1] ) =>
               ledger = fn_in.before /\ fn_out[1].status >= 400

\* an undo_last for Thessaloniki removed its newest entry from under a newer
\* entry of Vourvourou, and a delete with an unknown id was refused
C33_Witness ==
    /\ fn_out # <<>>
    /\ fn_in.op = "undo_last"
    /\ fn_in.confirm
    /\ fn_in.arg = <<"thessaloniki">>
    /\ Len(fn_in.before) = 3
    /\ fn_in.before[3].property_slug = "vourvourou"
    /\ fn_in.before[2].property_slug = "thessaloniki"
    /\ ledger = Without(fn_in.before, 2)

\* the accepted requests of an address within the WINDOW_SECONDS from t on
AcceptedWithin(ip, t) ==
    { i \in DOMAIN fn_out[ip] : t <= fn_out[ip][i] /\ fn_out[ip][i] < t + WINDOW_SECONDS }

\* C34: no address has more than MAX_REQ_PER_WINDOW requests accepted within
\* any WINDOW_SECONDS, and its queue never holds more than
\* MAX_REQ_PER_WINDOW timestamps; a request answered 429 leaves the queue as
\* it was; a request is refused only while the oldest recorded request of
\* its address is not older than the window
C34_RateLimit ==
    [][ /\ \A ip \in Ips :
            /\ Len(fn_in'.RATE[ip]) <= MAX_REQ_PER_WINDOW
            /\ \A t \in 0..MaxTime :
                  Cardinality(AcceptedWithin(ip, t)') <= MAX_REQ_PER_WINDOW
        /\ \A w \in Workers :
            ( inflight[w].reply # "429" /\ inflight'[w].reply = "429" ) =>
               /\ fn_in'.RATE = fn_in.RATE
               /\ fn_in.RATE[inflight[w].k] # <<>>
               /\ inflight[w].read[1] - fn_in.RATE[inflight[w].k][1] <= WINDOW_SECONDS
      ]_vars

\* the ids of the revisions of an assistant
RevisionsOf(d, assistant_id) ==
    { i \in DOMAIN d.revisions : d.revisions[i].assistant_id = assistant_id }

\* a call of the store has just returned or raised
Called(op) == turns' = turns + 1 /\ fn_out'[1].op = op

\* C35: after every call of the store the current revision of each
\* assistant is one of its own revisions and the revision numbers of an
\* assistant are distinct; update_assistant appends a revision numbered
\* one above the greatest number the assistant had and makes it current; no
\* call changes or removes a revision that exists
C35_RevisionStore ==
    [][ /\ \A s \in Slugs : fn_in'.assistants[s] # <<>> =>
              /\ fn_in'.assistants[s][1].current_revision_id
                    \in RevisionsOf(fn_in', fn_in'.assistants[s][1].id)
              /\ \A i, j \in RevisionsOf(fn_in', fn_in'.assistants[s][1].id) :
                    i # j => fn_in'.revisions[i].revision # fn_in'.revisions[j].revision
        /\ ( Called("update_assistant") /\ ~fn_out'[1].raised ) =>
              \E s \in {fn_out'[1].slug} :
                /\ Len(fn_in'.revisions) = Len(fn_in.revisions) + 1
                /\ fn_in'.revisions[Len(fn_in'.revisions)].assistant_id
                      = fn_in.assistants[s][1].id
                /\ fn_in'.revisions[Len(fn_in'.revisions)].revision
                      = MaxRevision(fn_in, fn_in.assistants[s][1].id) + 1
                /\ fn_in'.assistants[s][1].current_revision_id = Len(fn_in'.revisions)
        /\ Len(fn_in'.revisions) >= Len(fn_in.revisions)
        /\ SubSeq(fn_in'.revisions, 1, Len(fn_in.revisions)) = fn_in.revisions
      ]_vars

\* update_assistant gave an assistant its second revision, the third row
\* of the table, and made it current
C35_Witness ==
    /\ fn_out # <<>>
    /\ fn_out[1].op = "update_assistant"
    /\ ~fn_out[1].raised
    /\ Len(fn_in.revisions) = 3
    /\ fn_in.revisions[3].revision = 2
    /\ fn_in.assistants[fn_out[1].slug][1].current_revision_id = 3

\* a revision id that rollback accepts for the slug
OwnRevision(d, slug, revision_id) ==
    /\ d.assistants[slug] # <<>>
    /\ revision_id \in RevisionsOf(d, d.assistants[slug][1].id)

\* C36: rollback with a revision id that does not exist or is a revision of
\* another assistant raises and leaves the tables as they were; with a
\* revision of the assistant it makes that revision the current one and
\* changes nothing else
C36_Rollback ==
    [][ Called("rollback") =>
          IF OwnRevision(fn_in, fn_out'[1].slug, fn_out'[1].arg[1])
          THEN /\ ~fn_out'[1].raised
               /\ fn_in' = [fn_in EXCEPT
                     !.assistants[fn_out'[1].slug][1].current_revision_id
                         = fn_out'[1].arg[1]]
          ELSE /\ fn_out'[1].raised
               /\ fn_in' = fn_in
      ]_vars

\* a rollback made an older revision of the assistant current while the
\* other assistant has revisions of its own
C36_Witness ==
    /\ fn_out # <<>>
    /\ fn_out[1].op = "rollback"
    /\ ~fn_out[1].raised
    /\ fn_in.assistants[fn_out[1].slug][1].current_revision_id = fn_out[1].arg[1]
    /\ \E i \in RevisionsOf(fn_in, fn_in.assistants[fn_out[1].slug][1].id) :
          i > fn_out[1].arg[1]
    /\ \E i \in DOMAIN fn_in.revisions :
          fn_in.revisions[i].assistant_id # fn_in.assistants[fn_out[1].slug][1].id

\* C37: a seed_from_filesystem that follows another with no call and no
\* edit of the files in between adds no revision, and no
\* seed_from_filesystem changes the is_public flag or the public_id of an
\* assistant, so every public id resolves as before
C37_SeedIdempotent ==
    [][ Called("seed_from_filesystem") =>
          /\ PrevOp = "seed_from_filesystem" => fn_in'.revisions = fn_in.revisions
          /\ \A s \in Slugs : fn_in.assistants[s] # <<>> =>
                /\ fn_in'.assistants[s][1].is_public = fn_in.assistants[s][1].is_public
                /\ fn_in'.assistants[s][1].public_id = fn_in.assistants[s][1].public_id
          /\ \A pid \in 1..fn_in.issued :
                _get_public_assistant(fn_in', pid) = _get_public_assistant(fn_in, pid)
      ]_vars

\* the public id an assistant holds, NULL when it has no row
HeldBy(d, slug) ==
    IF d.assistants[slug] = <<>> THEN NULL ELSE d.assistants[slug][1].public_id

\* C38: a public id resolves only to the published assistant that holds
\* it; the id an assistant held resolves to no assistant after unpublish,
\* rotate_public_id or another publish, and an issued id that resolves to no
\* assistant never resolves again
C38_PublicIdResolves ==
    [][ /\ \A pid \in 1..fn_in'.issued :
              \A s \in _get_public_assistant(fn_in', pid) :
                  /\ HeldBy(fn_in', s) = pid
                  /\ fn_in'.assistants[s][1].is_public
        /\ \A pid \in 1..fn_in.issued :
              _get_public_assistant(fn_in, pid) = {} =>
                  _get_public_assistant(fn_in', pid) = {}
        /\ ( ( Called("unpublish") \/ Called("rotate_public_id") \/ Called("publish") )
             /\ HeldBy(fn_in, fn_out'[1].slug) # NULL ) =>
              _get_public_assistant(fn_in', HeldBy(fn_in, fn_out'[1].slug)) = {}
      ]_vars

\* after publish and rotate_public_id the first id resolves to no assistant
\* and the second to the assistant
C38_Witness ==
    /\ fn_out # <<>>
    /\ fn_out[1].op = "rotate_public_id"
    /\ fn_out[1].prev = "publish"
    /\ ~fn_out[1].raised
    /\ fn_in.issued = 2
    /\ _get_public_assistant(fn_in, 1) = {}
    /\ _get_public_assistant(fn_in, 2) = {fn_out[1].slug}

====
